---- MODULE Spec2Model ----
(***************************************************************************)
(* Verification model of the afo feed-digest orchestration pipeline:       *)
(* the backoff executor (retry.js), the default error classification,      *)
(* the two TTL caches, the digest pipeline (digest.js) and the run driver  *)
(* (summarize-feeds.js and its p-limit variant).                           *)
(*                                                                         *)
(* The module holds several specifications over one set of variables.      *)
(* Each specification drives one group of variables and leaves the other   *)
(* groups at their idle values.                                            *)
(***************************************************************************)
EXTENDS Integers, Sequences, FiniteSets, TLC

VARIABLES
    policy,     \* options of the retryWithBackoff call under study
    fn,         \* the wrapped operation: outcome of its i-th invocation
    exec,       \* per run of retryWithBackoff: position, counters, outcome
    cls,        \* last isRetryableError evaluation: the error and the answer
    bk,         \* last calculateBackoffDelay evaluation
    cfg,        \* config.js: the settings the caches and the pipeline read
    now,        \* Date.now(), in minutes
    digestCache,\* .cache/digests: item hash -> file
    feedCache,  \* .cache/feeds: feed url -> file
    dg,         \* the generateMultiLayerDigest invocation in progress
    ff,         \* the fetchFeedEntries invocation in progress
    run,        \* main: which main runs, and the limits and delays it reads
    task,       \* main: per feed, the position of its processing
    mainPc,     \* main: position of main itself
    report,     \* main: the report collector's counters
    digests,    \* main: the digests array
    pub,        \* publishing: the retention filter and the daily feed builder
    st,         \* main's start: the credential, the OPML outlines, the feeds loaded
    ne,         \* a raw feed entry, its normalizations and what becomes of them
    tf          \* date-filter.js: the instant, the input and the answer of a call

retryVars == <<policy, fn, exec>>
pureVars == <<cls, bk, st, ne, tf>>
cacheVars == <<cfg, now, digestCache, feedCache, dg, ff>>
mainVars == <<run, task, mainPc, report, digests>>
vars == <<policy, fn, exec, cls, bk, cfg, now, digestCache, feedCache, dg, ff,
          run, task, mainPc, report, digests, pub, st, ne, tf>>

None == "none"

Min(a, b) == IF a <= b THEN a ELSE b

RECURSIVE Pow2(_)
Pow2(n) == IF n <= 0 THEN 1 ELSE 2 * Pow2(n - 1)

(***************************************************************************)
(* Bounds of the model.                                                    *)
(***************************************************************************)
MaxRetriesBound == 2      \* largest maxRetries explored
JitterSteps == 4          \* Math.random() is drawn from {0, 1/J, .., (J-1)/J}
MaxAttemptN == 6          \* largest attempt index given to calculateBackoffDelay

(***************************************************************************)
(* Errors.  An error object is reduced to the fields isRetryableError      *)
(* reads.  A missing string field is "", a missing (or zero, equally       *)
(* falsy) numeric field is 0; hangUp says that error.message contains      *)
(* 'socket hang up'.                                                       *)
(***************************************************************************)
Err(c, s, sc, t, h) == [code |-> c, status |-> s, statusCode |-> sc, type |-> t, hangUp |-> h]

NetworkCodes == {"ECONNRESET", "ETIMEDOUT", "ENOTFOUND", "ECONNREFUSED", "EHOSTUNREACH", "EAI_AGAIN"}
CertCodes == {"UNABLE_TO_VERIFY_LEAF_SIGNATURE", "CERT_HAS_EXPIRED"}
ErrCodes == {""} \cup NetworkCodes \cup CertCodes \cup {"EPIPE"}
ErrStatuses == {0, 400, 408, 429, 499, 500, 504, 505, 599, 600}
ErrStatusCodes == {0, 404, 503}
ErrTypes == {"", "rate_limit_error", "server_error", "invalid_request_error"}

Errors == [code : ErrCodes, status : ErrStatuses, statusCode : ErrStatusCodes,
           type : ErrTypes, hangUp : BOOLEAN]

\* error.status || error.statusCode
HttpStatus(error) == IF error.status # 0 THEN error.status ELSE error.statusCode

isRetryableError_narrow(error) ==
    IF error.code \in NetworkCodes THEN TRUE
    ELSE IF error.status # 0 \/ error.statusCode # 0
         THEN LET status == HttpStatus(error)
              IN  status = 429 \/ status = 408 \/ (status >= 500 /\ status <= 503)
    ELSE IF error.type = "rate_limit_error" \/ error.type = "server_error" THEN TRUE
    ELSE IF error.hangUp THEN TRUE
    ELSE FALSE

isRetryableError(error) ==
    IF error.code \in NetworkCodes THEN TRUE
    ELSE IF error.status # 0 \/ error.statusCode # 0
         THEN LET status == HttpStatus(error)
              IN  status = 429 \/ status = 408 \/ (status >= 500 /\ status <= 504)
    ELSE IF error.type = "rate_limit_error" \/ error.type = "server_error" THEN TRUE
    ELSE IF error.hangUp THEN TRUE
    ELSE IF error.code \in CertCodes THEN FALSE
    ELSE FALSE

(***************************************************************************)
(* calculateBackoffDelay.  The draw Math.random() = k / JitterSteps, so    *)
(*   cappedDelay + cappedDelay * 0.25 * (2k/J - 1)                         *)
(*     = cappedDelay * (3J + 2k) / (4J)                                    *)
(* and Math.floor is the integer division.                                 *)
(***************************************************************************)
cappedDelay_shifted(attempt, baseDelay, maxDelay) ==
    Min(baseDelay * Pow2(attempt + 1), maxDelay)

cappedDelay(attempt, baseDelay, maxDelay) ==
    Min(baseDelay * Pow2(attempt), maxDelay)

calculateBackoffDelay_uncapped(attempt, baseDelay, maxDelay, k) ==
    ((baseDelay * Pow2(attempt)) * (3 * JitterSteps + 2 * k)) \div (4 * JitterSteps)

calculateBackoffDelay(attempt, baseDelay, maxDelay, k) ==
    (cappedDelay(attempt, baseDelay, maxDelay) * (3 * JitterSteps + 2 * k)) \div (4 * JitterSteps)

(***************************************************************************)
(* retryWithBackoff.  Two runs are made with the same operation and the    *)
(* same options: the run "hooked" with the onRetry hook of the policy,     *)
(* then the run "plain" with no hook (onRetry = null).                     *)
(***************************************************************************)
Runs == {"hooked", "plain"}

DefaultBaseDelayMs == 1000
DefaultMaxDelayMs == 30000

MaxRetriesSet == -1 .. MaxRetriesBound
Delays == { <<1, 4>>, <<3, 8>>, <<DefaultBaseDelayMs, DefaultMaxDelayMs>> }
Predicates == {"default", "isRetryableError"}
Hooks == {"logs", "throws"}

E503 == Err("", 503, 0, "", FALSE)
E400 == Err("", 400, 0, "", FALSE)
ECert503 == Err("CERT_HAS_EXPIRED", 503, 0, "", FALSE)
ScriptErrors == {E503, E400, ECert503}
NoError == Err("", 0, 0, "", FALSE)
\* the outcome of one invocation of fn: it fulfils, or rejects with an error
Ok == [ok |-> TRUE, error |-> NoError]
Fail(e) == [ok |-> FALSE, error |-> e]
Scripts == [1 .. (MaxRetriesBound + 1) -> {Ok} \cup {Fail(e) : e \in ScriptErrors}]

\* shouldRetry: the default () => true of retryWithBackoff, or
\* isRetryableError as installed by retryOnError
ShouldRetry_always(pred, error) == TRUE

ShouldRetry(pred, error) ==
    IF pred = "isRetryableError" THEN isRetryableError(error) ELSE TRUE

HookOf(r) == IF r = "hooked" THEN policy.onRetry ELSE None

\* how a run ended: kind is "returned" (the value of invocation inv), "threw"
\* (the error of invocation inv), "hookThrew" (the exception of the onRetry
\* hook) or "threwUndefined" (lastError was never assigned)
NoOutcome == [kind |-> None, inv |-> 0, error |-> NoError]
NoSleep == [retry |-> 0, capped |-> 0, delay |-> 0]

ExecStart == [pc |-> "idle", attempt |-> 0, calls |-> 0, sleeps |-> 0,
              onRetryCalls |-> 0, lastError |-> NoOutcome, lastSleep |-> NoSleep,
              outcome |-> NoOutcome]

RetryInit ==
    /\ policy \in [maxRetries : MaxRetriesSet, delays : Delays,
                   shouldRetry : Predicates, onRetry : Hooks]
    /\ fn \in Scripts
    /\ exec = [r \in Runs |-> ExecStart]

RetryIdle ==
    /\ policy = [maxRetries |-> 0, delays |-> <<1, 4>>, shouldRetry |-> "default", onRetry |-> "logs"]
    /\ fn = [i \in 1 .. (MaxRetriesBound + 1) |-> Ok]
    /\ exec = [r \in Runs |-> ExecStart]

Done(r) == exec[r].pc = "done"

\* the plain run is made after the hooked run has ended
MayStart(r) == r = "hooked" \/ Done("hooked")

\* entry of retryWithBackoff: attempt = 0, then the loop test
Enter(r) ==
    /\ exec[r].pc = "idle"
    /\ MayStart(r)
    /\ exec' = [exec EXCEPT ![r] =
            IF 0 <= policy.maxRetries
            THEN [@ EXCEPT !.pc = "call"]
            ELSE [@ EXCEPT !.pc = "done",
                           !.outcome = [kind |-> "threwUndefined", inv |-> 0, error |-> NoError]]]
    /\ UNCHANGED <<policy, fn>>

\* fn() is invoked and awaited
Invoke(r) ==
    /\ exec[r].pc = "call"
    /\ exec' = [exec EXCEPT ![r].pc = "awaiting", ![r].calls = @ + 1]
    /\ UNCHANGED <<policy, fn>>

\* fn() fulfils: return await fn()
SettleOk(r) ==
    /\ exec[r].pc = "awaiting"
    /\ fn[exec[r].calls].ok
    /\ exec' = [exec EXCEPT ![r].pc = "done",
                            ![r].outcome = [kind |-> "returned", inv |-> exec[r].calls, error |-> NoError]]
    /\ UNCHANGED <<policy, fn>>

\* fn() rejects: the catch block up to the next suspension point
SettleError(r) ==
    /\ exec[r].pc = "awaiting"
    /\ ~fn[exec[r].calls].ok
    /\ LET e == exec[r]
           error == fn[e.calls].error
           last == [kind |-> "threw", inv |-> e.calls, error |-> error]
           base == policy.delays[1]
           max == policy.delays[2]
       IN  IF e.attempt >= policy.maxRetries
           THEN exec' = [exec EXCEPT ![r] = [e EXCEPT !.lastError = last, !.pc = "done", !.outcome = last]]
           ELSE IF ~ShouldRetry(policy.shouldRetry, error)
           THEN exec' = [exec EXCEPT ![r] = [e EXCEPT !.lastError = last, !.pc = "done", !.outcome = last]]
           ELSE \E k \in 0 .. (JitterSteps - 1) :
                  LET delay == calculateBackoffDelay(e.attempt, base, max, k)
                      slept == [retry |-> e.attempt + 1,
                                capped |-> cappedDelay(e.attempt, base, max),
                                delay |-> delay]
                  IN  IF HookOf(r) = None
                      THEN exec' = [exec EXCEPT ![r] = [e EXCEPT !.lastError = last, !.pc = "sleeping",
                                                          !.sleeps = @ + 1, !.lastSleep = slept]]
                      ELSE IF HookOf(r) = "throws"
                      THEN exec' = [exec EXCEPT ![r] = [e EXCEPT !.lastError = last, !.pc = "done",
                                                          !.onRetryCalls = @ + 1,
                                                          !.outcome = [kind |-> "hookThrew", inv |-> 0, error |-> NoError]]]
                      ELSE exec' = [exec EXCEPT ![r] = [e EXCEPT !.lastError = last, !.pc = "sleeping",
                                                          !.onRetryCalls = @ + 1,
                                                          !.sleeps = @ + 1, !.lastSleep = slept]]
    /\ UNCHANGED <<policy, fn>>

\* the sleep ends: attempt++, then the loop test
Wake(r) ==
    /\ exec[r].pc = "sleeping"
    /\ exec' = [exec EXCEPT ![r] =
            IF exec[r].attempt + 1 <= policy.maxRetries
            THEN [@ EXCEPT !.pc = "call", !.attempt = @ + 1]
            ELSE [@ EXCEPT !.pc = "done", !.attempt = @ + 1, !.outcome = exec[r].lastError]]
    /\ UNCHANGED <<policy, fn>>

(***************************************************************************)
(* Configuration (config.js).  The clock counts minutes, the unit of the   *)
(* TTL settings, so the factor 60 * 1000 of the derived values is 1.       *)
(***************************************************************************)
Max(a, b) == IF a >= b THEN a ELSE b

DigestTtl == 2            \* the positive digest TTL explored
FeedTtl == 1              \* the positive feed TTL explored
MaxTime == 3              \* the clock stops here
MaxInvocations == 2       \* cache-using operations started in one behaviour
MaxManualSections == 1    \* sentence groups summarized by the manual fallback

DefaultCustomAttempts == 3

Configs == {c \in [digestCacheTtlMinutes : {0, DigestTtl},
                    feedCacheTtlMinutes : {-1, FeedTtl},
                    enableDigestCache : BOOLEAN,
                    enableFullArticleFetch : BOOLEAN,
                    customPrompt : BOOLEAN,
                    maxRetries : {0, 1},
                    skipCache : {FALSE}] :
              /\ c.digestCacheTtlMinutes = 0 => c.enableDigestCache
              /\ c.feedCacheTtlMinutes = -1 => c.digestCacheTtlMinutes = DigestTtl
              /\ ~c.customPrompt => c.maxRetries = 1}

\* the configurations of a run over a disk that earlier runs have written:
\* those above, and both TTLs positive with --skip-cache given
StoreConfigs ==
    {c \in Configs : c.customPrompt => c.maxRetries = 1}
      \cup {[digestCacheTtlMinutes |-> DigestTtl, feedCacheTtlMinutes |-> FeedTtl,
             enableDigestCache |-> TRUE, enableFullArticleFetch |-> TRUE,
             customPrompt |-> FALSE, maxRetries |-> 1, skipCache |-> TRUE]}

feedCacheTtlMs == Max(0, cfg.feedCacheTtlMinutes)
digestCacheTtlMs == Max(0, cfg.digestCacheTtlMinutes)
feedCacheEnabled_zeroTtl == ~cfg.skipCache /\ feedCacheTtlMs >= 0

\* the derived flags, both cleared by --skip-cache
feedCacheEnabled == ~cfg.skipCache /\ feedCacheTtlMs > 0
digestCacheEnabled == ~cfg.skipCache /\ cfg.enableDigestCache /\ digestCacheTtlMs > 0

(***************************************************************************)
(* Items, fingerprints and digests.                                        *)
(* A date is [repr, t]: a Date object or, in JSON, its ISO string.  A text *)
(* is reduced to its kind: "" (empty), "short" (under 200 characters) or   *)
(* "long"; a generated layer to how it was obtained.                       *)
(***************************************************************************)
DateOf(t) == [repr |-> "Date", t |-> t]
toISOString(d) == [repr |-> "iso", t |-> d.t]

ItemA == [title |-> "A", link |-> "a", publishedAt |-> DateOf(0), description |-> "long"]
ItemB == [title |-> "B", link |-> "b", publishedAt |-> DateOf(1), description |-> ""]
Items == {ItemA, ItemB}
NoItem == [title |-> "", link |-> "", publishedAt |-> DateOf(0), description |-> ""]

\* sha256 of `${title}|${link}|${publishedAt.toISOString()}`
generateItemHash(item) == <<item.title, item.link, toISOString(item.publishedAt).t>>

Hashes == {generateItemHash(i) : i \in Items}

NullDigest == [itemHash |-> <<"", "", 0>>, title |-> "", link |-> "", publishedAt |-> DateOf(0),
               fetchedSuccessfully |-> FALSE, paragraphs |-> 0, sections |-> "",
               overall |-> "", oneLine |-> ""]

\* JSON.stringify then JSON.parse: a Date comes back as its ISO string
DigestToJSON(d) == [d EXCEPT !.publishedAt = toISOString(d.publishedAt)]

MissingDigestFile == [file |-> "missing", cachedAt |-> 0, digest |-> NullDigest]

\* what a cache file can be besides a record written by the program: absent,
\* unreadable, not valid JSON, or JSON without the stored-at timestamp
DamagedKinds == {"unreadable", "invalidJSON", "noTimestamp"}
FileKinds == {"missing", "valid"} \cup DamagedKinds

\* truncateText(text, n) of a text kind
truncateText(kind) == IF kind = "" THEN "" ELSE "truncated"

(***************************************************************************)
(* The digest cache.                                                       *)
(***************************************************************************)
Lookup(found, digest) == [found |-> found, digest |-> digest]

readDigestCache_inclusive(itemHash) ==
    IF ~digestCacheEnabled THEN Lookup(FALSE, NullDigest)
    ELSE LET cached == digestCache[itemHash]
         IN  IF cached.file \in {"missing", "unreadable", "invalidJSON"}
             THEN Lookup(FALSE, NullDigest)       \* readFile or JSON.parse throws: caught
             ELSE IF cached.file = "noTimestamp" THEN Lookup(FALSE, NullDigest)
             ELSE IF now - cached.cachedAt >= digestCacheTtlMs THEN Lookup(FALSE, NullDigest)
             ELSE Lookup(TRUE, cached.digest)

readDigestCache(itemHash) ==
    IF ~digestCacheEnabled THEN Lookup(FALSE, NullDigest)
    ELSE LET cached == digestCache[itemHash]
         IN  IF cached.file \in {"missing", "unreadable", "invalidJSON"}
             THEN Lookup(FALSE, NullDigest)       \* readFile or JSON.parse throws: caught
             ELSE IF cached.file = "noTimestamp" THEN Lookup(FALSE, NullDigest)
             ELSE IF now - cached.cachedAt > digestCacheTtlMs THEN Lookup(FALSE, NullDigest)
             ELSE Lookup(TRUE, cached.digest)

(***************************************************************************)
(* generateMultiLayerDigest, one step per suspension point.                *)
(***************************************************************************)
DgIdle == [pc |-> "idle", n |-> 0, item |-> NoItem, fetches |-> 0, aiCalls |-> 0,
           writes |-> 0, content |-> "", fetchError |-> FALSE, attempt |-> 1,
           paragraphs |-> 0, sections |-> "", overall |-> "", oneLine |-> "",
           status |-> "none", fromCache |-> FALSE, aiSucceeded |-> FALSE,
           result |-> NullDigest]

FfQuiet == ff.pc \in {"idle", "done"}
DgQuiet == dg.pc \in {"idle", "done"}

DgStart(item) ==
    /\ DgQuiet /\ FfQuiet
    /\ dg.n + ff.n < MaxInvocations
    /\ dg' = [DgIdle EXCEPT !.pc = "cacheCheck", !.n = dg.n + 1, !.item = item]
    /\ UNCHANGED <<cfg, now, digestCache, feedCache, ff>>

DgCacheCheck_regenerates ==
    /\ dg.pc = "cacheCheck"
    /\ dg' = [dg EXCEPT !.pc = "fetch"]
    /\ UNCHANGED <<cfg, now, digestCache, feedCache, ff>>

\* const cached = await readDigestCache(itemHash); if (cached) return cached
DgCacheCheck ==
    /\ dg.pc = "cacheCheck"
    /\ LET itemHash == generateItemHash(dg.item)
           cached == readDigestCache(itemHash)
       IN  dg' = IF cached.found
                 THEN [dg EXCEPT !.pc = "done", !.status = "returned", !.fromCache = TRUE,
                                 !.result = cached.digest]
                 ELSE [dg EXCEPT !.pc = "fetch"]
    /\ UNCHANGED <<cfg, now, digestCache, feedCache, ff>>

ContentKinds == {"", "short", "long"}

DgFetch_rethrows ==
    /\ dg.pc = "fetch"
    /\ IF ~cfg.enableFullArticleFetch
       THEN dg' = [dg EXCEPT !.pc = "custom", !.content = dg.item.description,
                             !.fetchError = TRUE]
       ELSE \E ok \in BOOLEAN, extracted \in ContentKinds :
              dg' = IF ok
                    THEN [dg EXCEPT !.pc = "custom", !.fetches = @ + 1,
                                    !.content = IF extracted # "" THEN extracted
                                                ELSE dg.item.description]
                    ELSE [dg EXCEPT !.pc = "done", !.fetches = @ + 1,
                                    !.fetchError = TRUE, !.status = "threw"]
    /\ UNCHANGED <<cfg, now, digestCache, feedCache, ff>>

\* fetchArticleContent(item.link, {fallbackContent: item.description || ''})
\* then content = articleContent.content || item.description || ''
DgFetch ==
    /\ dg.pc = "fetch"
    /\ IF ~cfg.enableFullArticleFetch
       THEN dg' = [dg EXCEPT !.pc = "custom", !.content = dg.item.description,
                             !.fetchError = TRUE]
       ELSE \E ok \in BOOLEAN, extracted \in ContentKinds :
              dg' = [dg EXCEPT !.pc = "custom",
                               !.fetches = @ + 1,
                               !.fetchError = ~ok,
                               !.content = IF ok /\ extracted # "" THEN extracted
                                           ELSE dg.item.description]
    /\ UNCHANGED <<cfg, now, digestCache, feedCache, ff>>

\* a custom-prompt loop that runs one attempt past its limit (attempt <= max)
CustomAttempts_oneMore ==
    (IF cfg.maxRetries # 0 THEN cfg.maxRetries ELSE DefaultCustomAttempts) + 1

\* const maxRetries = config.maxRetries || 3
CustomAttempts == IF cfg.maxRetries # 0 THEN cfg.maxRetries ELSE DefaultCustomAttempts

\* generateWithCustomPrompt: one loop iteration, and the use of its result
DgCustom ==
    /\ dg.pc = "custom"
    /\ IF ~cfg.customPrompt
       THEN dg' = [dg EXCEPT !.pc = "paragraphs"]
       ELSE \E reply \in {"json", "sparse", "badShape", "unparsable", "throws"} :
              dg' = CASE reply = "json" ->
                           [dg EXCEPT !.pc = "write", !.aiCalls = @ + 1, !.paragraphs = 1,
                                      !.sections = "", !.overall = "ai", !.oneLine = "ai",
                                      !.aiSucceeded = TRUE]
                      [] reply = "sparse" ->
                           [dg EXCEPT !.pc = "write", !.aiCalls = @ + 1, !.paragraphs = 0,
                                      !.sections = "", !.overall = "", !.oneLine = "",
                                      !.aiSucceeded = TRUE]
                      [] reply = "badShape" ->
                           [dg EXCEPT !.pc = "done", !.aiCalls = @ + 1, !.status = "threw",
                                      !.aiSucceeded = TRUE]
                      [] OTHER ->
                           IF dg.attempt < CustomAttempts
                           THEN [dg EXCEPT !.aiCalls = @ + 1, !.attempt = @ + 1]
                           ELSE [dg EXCEPT !.aiCalls = @ + 1, !.pc = "paragraphs"]
    /\ UNCHANGED <<cfg, now, digestCache, feedCache, ff>>

\* generateParagraphDigests
DgParagraphs ==
    /\ dg.pc = "paragraphs"
    /\ IF dg.content # "long"
       THEN dg' = [dg EXCEPT !.pc = "section", !.paragraphs = 0]
       ELSE \E reply \in {"sections", "nothing", "throws"} :
              dg' = CASE reply = "sections" ->
                           [dg EXCEPT !.pc = "section", !.aiCalls = @ + 1, !.paragraphs = 1,
                                      !.aiSucceeded = TRUE]
                      [] reply = "nothing" ->
                           [dg EXCEPT !.pc = "section", !.aiCalls = @ + 1, !.paragraphs = 0,
                                      !.aiSucceeded = TRUE]
                      [] OTHER ->
                           [dg EXCEPT !.pc = "manual", !.aiCalls = @ + 1]
    /\ UNCHANGED <<cfg, now, digestCache, feedCache, ff>>

\* generateParagraphDigestsManual: g sentence groups, each summarized by one
\* call whose failure is caught and drops the group
DgManual ==
    /\ dg.pc = "manual"
    /\ \E g \in 0 .. MaxManualSections :
         \E summarized \in 0 .. g :
            dg' = [dg EXCEPT !.pc = "section", !.aiCalls = @ + g, !.paragraphs = summarized,
                                  !.aiSucceeded = @ \/ summarized > 0]
    /\ UNCHANGED <<cfg, now, digestCache, feedCache, ff>>

\* generateSectionDigest
DgSection ==
    /\ dg.pc = "section"
    /\ IF dg.paragraphs = 0
       THEN dg' = [dg EXCEPT !.pc = "overall", !.sections = ""]
       ELSE \E ok \in BOOLEAN :
              dg' = [dg EXCEPT !.pc = "overall", !.aiCalls = @ + 1,
                               !.sections = IF ok THEN "ai" ELSE "joined",
                               !.aiSucceeded = @ \/ ok]
    /\ UNCHANGED <<cfg, now, digestCache, feedCache, ff>>

\* generateOverallDigest
DgOverall ==
    /\ dg.pc = "overall"
    /\ \E ok \in BOOLEAN :
          dg' = [dg EXCEPT !.pc = "oneLine", !.aiCalls = @ + 1,
                           !.overall = IF ok THEN "ai" ELSE truncateText(dg.content),
                           !.aiSucceeded = @ \/ ok]
    /\ UNCHANGED <<cfg, now, digestCache, feedCache, ff>>

\* returns the digest straight after the last layer, the cache write left out
DgOneLine_skipsWrite ==
    /\ dg.pc = "oneLine"
    /\ \E ok \in BOOLEAN :
          dg' = [dg EXCEPT !.pc = "done", !.aiCalls = @ + 1, !.status = "returned",
                           !.oneLine = IF ok THEN "ai" ELSE truncateText(dg.overall),
                           !.aiSucceeded = @ \/ ok]
    /\ UNCHANGED <<cfg, now, digestCache, feedCache, ff>>

\* generateOneLineDigest
DgOneLine ==
    /\ dg.pc = "oneLine"
    /\ \E ok \in BOOLEAN :
          dg' = [dg EXCEPT !.pc = "write", !.aiCalls = @ + 1,
                           !.oneLine = IF ok THEN "ai" ELSE truncateText(dg.overall),
                           !.aiSucceeded = @ \/ ok]
    /\ UNCHANGED <<cfg, now, digestCache, feedCache, ff>>

AssembledDigest ==
    [itemHash |-> generateItemHash(dg.item), title |-> dg.item.title, link |-> dg.item.link,
     publishedAt |-> dg.item.publishedAt, fetchedSuccessfully |-> ~dg.fetchError,
     paragraphs |-> dg.paragraphs, sections |-> dg.sections,
     overall |-> dg.overall, oneLine |-> dg.oneLine]

\* buildAtomFeed, the entry of one digest in a feed built at instant t:
\* updated and published are digest.publishedAt?.toISOString?.() ||
\* new Date().toISOString(), and a string has no toISOString
entryTimestamp(publishedAt, t) ==
    IF publishedAt.repr = "Date" THEN toISOString(publishedAt) ELSE toISOString(DateOf(t))

\* formatDigestForFeed: the one-line, the overall and the paragraph layers
formatDigestForFeed(digest) == <<digest.oneLine, digest.overall, digest.paragraphs>>

buildAtomEntry(digest, t) ==
    [title |-> digest.title,
     id |-> IF digest.link # "" THEN [from |-> "link", text |-> digest.link]
            ELSE [from |-> "sha1", text |-> digest.title],
     updated |-> entryTimestamp(digest.publishedAt, t),
     published |-> entryTimestamp(digest.publishedAt, t),
     content |-> formatDigestForFeed(digest)]

\* rewrites the directory: the records of the other keys are gone
DgWrite_wipesOthers ==
    /\ dg.pc = "write"
    /\ LET digest == AssembledDigest
           done == [dg EXCEPT !.pc = "done", !.status = "returned", !.result = digest]
       IN  IF ~digestCacheEnabled
           THEN /\ dg' = done
                /\ UNCHANGED digestCache
           ELSE /\ dg' = [done EXCEPT !.writes = @ + 1]
                /\ digestCache' =
                      [h \in DOMAIN digestCache |->
                         IF h = digest.itemHash
                         THEN [file |-> "valid", cachedAt |-> now, digest |-> DigestToJSON(digest)]
                         ELSE MissingDigestFile]
    /\ UNCHANGED <<cfg, now, feedCache, ff>>

\* await writeDigestCache(itemHash, digest); return digest
DgWrite ==
    /\ dg.pc = "write"
    /\ LET digest == AssembledDigest
           done == [dg EXCEPT !.pc = "done", !.status = "returned", !.result = digest]
       IN  IF ~digestCacheEnabled
           THEN /\ dg' = done
                /\ UNCHANGED digestCache
           ELSE \E written \in BOOLEAN :
                  /\ dg' = [done EXCEPT !.writes = @ + 1]
                  /\ digestCache' =
                        IF written
                        THEN [digestCache EXCEPT ![digest.itemHash] =
                                 [file |-> "valid", cachedAt |-> now, digest |-> DigestToJSON(digest)]]
                        ELSE digestCache
    /\ UNCHANGED <<cfg, now, feedCache, ff>>

(***************************************************************************)
(* The feed cache and fetchFeedEntries.                                    *)
(***************************************************************************)
Feeds == {"f1", "f2"}
EntryLists == {<<>>, <<ItemA>>, <<ItemA, ItemB>>}

MissingFeedFile == [file |-> "missing", fetchedAt |-> 0, entries |-> <<>>]

EntryToJSON(entry) == [entry EXCEPT !.publishedAt = toISOString(entry.publishedAt)]
\* what a feed or a cache file supplies as a date besides an ISO string:
\* nothing, or a text that does not parse
RawAbsent == [repr |-> "absent", t |-> 0]
RawUnparsable == [repr |-> "unparsable", t |-> 0]

coerceDate_epoch(value, t) ==
    IF value.repr = "absent" THEN DateOf(0)
    ELSE IF value.repr = "Date" THEN value
    ELSE IF value.repr = "unparsable" THEN DateOf(0)
    ELSE DateOf(value.t)

\* coerceDate evaluated at instant t: new Date() for a missing value and for
\* one that does not parse
coerceDate(value, t) ==
    IF value.repr = "absent" THEN DateOf(t)
    ELSE IF value.repr = "Date" THEN value
    ELSE IF value.repr = "unparsable" THEN DateOf(t)
    ELSE DateOf(value.t)
EntryFromJSON(entry) == [entry EXCEPT !.publishedAt = coerceDate(entry.publishedAt, now)]

FeedLookup(found, entries) == [found |-> found, entries |-> entries]

readFeedCache_trusting(feedUrl) ==
    IF ~feedCacheEnabled THEN FeedLookup(FALSE, <<>>)
    ELSE LET parsed == feedCache[feedUrl]
         IN  IF parsed.file \in {"missing", "unreadable", "invalidJSON"}
             THEN FeedLookup(FALSE, <<>>)
             ELSE IF parsed.file # "noTimestamp" /\ now - parsed.fetchedAt > feedCacheTtlMs
             THEN FeedLookup(FALSE, <<>>)
             ELSE FeedLookup(TRUE, [i \in 1 .. Len(parsed.entries) |-> EntryFromJSON(parsed.entries[i])])

readFeedCache(feedUrl) ==
    IF ~feedCacheEnabled THEN FeedLookup(FALSE, <<>>)
    ELSE LET parsed == feedCache[feedUrl]
         IN  IF parsed.file \in {"missing", "unreadable", "invalidJSON"}
             THEN FeedLookup(FALSE, <<>>)         \* readFile or JSON.parse throws: caught
             ELSE IF parsed.file = "noTimestamp" THEN FeedLookup(FALSE, <<>>)
             ELSE IF now - parsed.fetchedAt > feedCacheTtlMs THEN FeedLookup(FALSE, <<>>)
             ELSE FeedLookup(TRUE, [i \in 1 .. Len(parsed.entries) |-> EntryFromJSON(parsed.entries[i])])

FfIdle == [pc |-> "idle", n |-> 0, feed |-> "f1", fromCache |-> FALSE, entries |-> <<>>,
           writes |-> 0, status |-> "none"]

FfStart(feed) ==
    /\ DgQuiet /\ FfQuiet
    /\ dg.n + ff.n < MaxInvocations
    /\ ff' = [FfIdle EXCEPT !.pc = "read", !.n = ff.n + 1, !.feed = feed]
    /\ UNCHANGED <<cfg, now, digestCache, feedCache, dg>>

\* const cachedEntries = await readFeedCache(feed.xmlUrl); if (cachedEntries) return
FfRead ==
    /\ ff.pc = "read"
    /\ LET cachedEntries == readFeedCache(ff.feed)
       IN  ff' = IF cachedEntries.found
                 THEN [ff EXCEPT !.pc = "done", !.status = "returned", !.fromCache = TRUE,
                                 !.entries = cachedEntries.entries]
                 ELSE [ff EXCEPT !.pc = "fetch"]
    /\ UNCHANGED <<cfg, now, digestCache, feedCache, dg>>

\* retryOnError(extract(feed.xmlUrl)), then normalizeEntry of each entry
FfFetch ==
    /\ ff.pc = "fetch"
    /\ \/ \E entries \in EntryLists : ff' = [ff EXCEPT !.pc = "write", !.entries = entries]
       \/ ff' = [ff EXCEPT !.pc = "done", !.status = "threw"]
    /\ UNCHANGED <<cfg, now, digestCache, feedCache, dg>>

\* await writeFeedCache(feed.xmlUrl, entries); return entries
FfWrite ==
    /\ ff.pc = "write"
    /\ IF ~feedCacheEnabled
       THEN /\ ff' = [ff EXCEPT !.pc = "done", !.status = "returned"]
            /\ UNCHANGED feedCache
       ELSE \/ /\ feedCache' = [feedCache EXCEPT ![ff.feed] =
                     [file |-> "valid", fetchedAt |-> now,
                      entries |-> [i \in 1 .. Len(ff.entries) |-> EntryToJSON(ff.entries[i])]]]
               /\ ff' = [ff EXCEPT !.pc = "done", !.writes = @ + 1, !.status = "returned"]
            \/ /\ ff' = [ff EXCEPT !.pc = "done", !.writes = @ + 1, !.status = "threw"]
               /\ UNCHANGED feedCache
    /\ UNCHANGED <<cfg, now, digestCache, dg>>

\* The clock advances.  Only the cache lookups and writes read it, so time
\* passing anywhere in an operation is time passing just before its next
\* lookup or write.
Tick ==
    /\ now < MaxTime
    /\ dg.pc \in {"cacheCheck", "write"} \/ ff.pc \in {"read", "write"}
    /\ now' = now + 1
    /\ UNCHANGED <<cfg, digestCache, feedCache, dg, ff>>

CacheInit ==
    /\ cfg \in Configs
    /\ now = 0
    /\ digestCache = [h \in Hashes |-> MissingDigestFile]
    /\ feedCache = [f \in Feeds |-> MissingFeedFile]
    /\ dg = DgIdle
    /\ ff = FfIdle

CacheIdle ==
    /\ cfg = [digestCacheTtlMinutes |-> DigestTtl, feedCacheTtlMinutes |-> FeedTtl,
              enableDigestCache |-> TRUE, enableFullArticleFetch |-> TRUE,
              customPrompt |-> FALSE, maxRetries |-> 1, skipCache |-> FALSE]
    /\ now = 0
    /\ digestCache = [h \in Hashes |-> MissingDigestFile]
    /\ feedCache = [f \in Feeds |-> MissingFeedFile]
    /\ dg = DgIdle
    /\ ff = FfIdle

\* A run over a disk that earlier runs and outside causes have left: every
\* digest file of one kind, every feed file of one kind; a valid file holds
\* a record stored at time 0.
PriorDigest(item) ==
    DigestToJSON([itemHash |-> generateItemHash(item), title |-> item.title, link |-> item.link,
                  publishedAt |-> item.publishedAt, fetchedSuccessfully |-> TRUE,
                  paragraphs |-> 1, sections |-> "ai", overall |-> "ai", oneLine |-> "ai"])
DigestFileOf(kind, item) ==
    [file |-> kind, cachedAt |-> 0,
     digest |-> IF kind \in {"valid", "noTimestamp"} THEN PriorDigest(item) ELSE NullDigest]
FeedFileOf(kind) ==
    [file |-> kind, fetchedAt |-> 0,
     entries |-> IF kind \in {"valid", "noTimestamp"} THEN <<EntryToJSON(ItemA)>> ELSE <<>>]

StoreInit ==
    /\ cfg \in StoreConfigs
    /\ now = 0
    /\ \E kind \in FileKinds :
          digestCache = [h \in Hashes |->
                           DigestFileOf(kind, CHOOSE i \in Items : generateItemHash(i) = h)]
    /\ \E kind \in FileKinds : feedCache = [f \in Feeds |-> FeedFileOf(kind)]
    /\ dg = [DgIdle EXCEPT !.n = MaxInvocations - 1]
    /\ ff = FfIdle

CacheNext ==
    \/ \E item \in Items : DgStart(item) /\ UNCHANGED <<retryVars, pureVars, mainVars, pub>>
    \/ DgCacheCheck /\ UNCHANGED <<retryVars, pureVars, mainVars, pub>>
    \/ DgFetch /\ UNCHANGED <<retryVars, pureVars, mainVars, pub>>
    \/ DgCustom /\ UNCHANGED <<retryVars, pureVars, mainVars, pub>>
    \/ DgParagraphs /\ UNCHANGED <<retryVars, pureVars, mainVars, pub>>
    \/ DgManual /\ UNCHANGED <<retryVars, pureVars, mainVars, pub>>
    \/ DgSection /\ UNCHANGED <<retryVars, pureVars, mainVars, pub>>
    \/ DgOverall /\ UNCHANGED <<retryVars, pureVars, mainVars, pub>>
    \/ DgOneLine /\ UNCHANGED <<retryVars, pureVars, mainVars, pub>>
    \/ DgWrite /\ UNCHANGED <<retryVars, pureVars, mainVars, pub>>
    \/ \E feed \in Feeds : FfStart(feed) /\ UNCHANGED <<retryVars, pureVars, mainVars, pub>>
    \/ FfRead /\ UNCHANGED <<retryVars, pureVars, mainVars, pub>>
    \/ FfFetch /\ UNCHANGED <<retryVars, pureVars, mainVars, pub>>
    \/ FfWrite /\ UNCHANGED <<retryVars, pureVars, mainVars, pub>>
    \/ Tick /\ UNCHANGED <<retryVars, pureVars, mainVars, pub>>

(***************************************************************************)
(* main.  Three mains are in the repository: the one that hands the feeds  *)
(* to a p-limit pool ("pooled"), and the current one, which loops over the *)
(* feeds in its legacy mode ("legacy") or scans all feeds and then loops   *)
(* over those with articles in its daily digest mode ("daily").            *)
(***************************************************************************)
NFeeds == 3             \* feed definitions loaded
MaxEntries == 2         \* entries of a feed left to process
MaxFeedLimit == 2       \* largest maxConcurrentFeeds explored
MaxItemLimit == 2       \* largest maxConcurrentItems explored

FeedIds == 1 .. NFeeds
Variants == {"pooled", "legacy", "daily"}

RunConfigs == [variant : Variants,
               maxFeeds : {NFeeds - 1, NFeeds},
               maxConcurrentFeeds : 1 .. MaxFeedLimit,
               maxConcurrentItems : {1, MaxItemLimit},
               delayBetweenItems : BOOLEAN,
               delayBetweenFeeds : BOOLEAN]

Queued == [pc |-> "queued", i |-> 0, n |-> 0, failed |-> FALSE, threw |-> 0, hits |-> 0]
Skipped == [pc |-> "skipped", i |-> 0, n |-> 0, failed |-> FALSE, threw |-> 0, hits |-> 0]

\* feedErrors and itemErrors are the lengths of feeds.errors and items.errors;
\* finalized counts the calls of finalizeReport, saved tells that saveReports
\* has written the report
createReportCollector ==
    [feedsTotal |-> 0, feedsSuccessful |-> 0, feedsFailed |-> 0, withArticles |-> 0,
     feedErrors |-> 0,
     itemsTotal |-> 0, itemsProcessed |-> 0, itemsSuccessful |-> 0, itemsFailed |-> 0,
     itemsSkipped |-> 0, itemsCached |-> 0, itemErrors |-> 0,
     finalized |-> 0, saved |-> FALSE]

recordFeedResult_silent(r, success, error) ==
    IF success
    THEN [r EXCEPT !.feedsTotal = @ + 1, !.feedsSuccessful = @ + 1]
    ELSE [r EXCEPT !.feedsTotal = @ + 1, !.feedsFailed = @ + 1]

\* error tells whether an error object was passed
recordFeedResult(r, success, error) ==
    IF success
    THEN [r EXCEPT !.feedsTotal = @ + 1, !.feedsSuccessful = @ + 1]
    ELSE [r EXCEPT !.feedsTotal = @ + 1, !.feedsFailed = @ + 1,
                   !.feedErrors = IF error THEN @ + 1 ELSE @]

recordFeedArticles(r, articleCount) ==
    IF articleCount > 0 THEN [r EXCEPT !.withArticles = @ + 1] ELSE r

\* the cached branch counts the item as cached only
recordItemResult_cachedApart(r, status, error) ==
    CASE status = "success" ->
            [r EXCEPT !.itemsTotal = @ + 1, !.itemsSuccessful = @ + 1, !.itemsProcessed = @ + 1]
      [] status = "failed" ->
            [r EXCEPT !.itemsTotal = @ + 1, !.itemsFailed = @ + 1,
                      !.itemErrors = IF error THEN @ + 1 ELSE @]
      [] status = "skipped" ->
            [r EXCEPT !.itemsTotal = @ + 1, !.itemsSkipped = @ + 1]
      [] status = "cached" ->
            [r EXCEPT !.itemsTotal = @ + 1, !.itemsCached = @ + 1]
      [] OTHER -> [r EXCEPT !.itemsTotal = @ + 1]

\* error tells whether an error object was passed
recordItemResult(r, status, error) ==
    CASE status = "success" ->
            [r EXCEPT !.itemsTotal = @ + 1, !.itemsSuccessful = @ + 1, !.itemsProcessed = @ + 1]
      [] status = "failed" ->
            [r EXCEPT !.itemsTotal = @ + 1, !.itemsFailed = @ + 1,
                      !.itemErrors = IF error THEN @ + 1 ELSE @]
      [] status = "skipped" ->
            [r EXCEPT !.itemsTotal = @ + 1, !.itemsSkipped = @ + 1]
      [] status = "cached" ->
            [r EXCEPT !.itemsTotal = @ + 1, !.itemsCached = @ + 1, !.itemsProcessed = @ + 1,
                      !.itemsSuccessful = @ + 1]
      [] OTHER -> [r EXCEPT !.itemsTotal = @ + 1]

\* a feed is being processed from the start of its fetch to the end of its
\* last delay; an item is in flight while its digest is awaited
Running(f) == task[f].pc \in {"fetching", "item", "itemDelay", "feedDelay"}
activeCount == Cardinality({f \in FeedIds : Running(f)})
ItemsInFlight(f) == IF task[f].pc = "item" THEN 1 ELSE 0

\* position of a feed among the feeds found to have articles
Rank(f) == Cardinality({g \in FeedIds : g < f /\ task[g].n > 0})

MainInit ==
    /\ run \in RunConfigs
    /\ task = [f \in FeedIds |->
                 IF run.variant # "daily" /\ f > run.maxFeeds THEN Skipped ELSE Queued]
    /\ mainPc = "starting"
    /\ report = createReportCollector
    /\ digests = <<>>

MainIdle ==
    /\ run = [variant |-> "legacy", maxFeeds |-> NFeeds, maxConcurrentFeeds |-> 1,
              maxConcurrentItems |-> 1, delayBetweenItems |-> FALSE,
              delayBetweenFeeds |-> FALSE]
    /\ task = [f \in FeedIds |-> Queued]
    /\ mainPc = "starting"
    /\ report = createReportCollector
    /\ digests = <<>>

\* requireEnv, verifyApiKey, loadFeedDefinitions: a failure of any is fatal
Startup ==
    /\ mainPc = "starting"
    /\ \E ok \in BOOLEAN : mainPc' = IF ok THEN "processing" ELSE "aborted"
    /\ UNCHANGED <<run, task, report, digests>>

PoolStart_overbooked(f) ==
    /\ mainPc = "processing"
    /\ run.variant = "pooled"
    /\ task[f].pc = "queued"
    /\ \A g \in FeedIds : g < f => task[g].pc # "queued"
    /\ activeCount <= run.maxConcurrentFeeds
    /\ task' = [task EXCEPT ![f].pc = "fetching"]
    /\ UNCHANGED <<run, mainPc, report, digests>>

\* feedLimit = pLimit(config.maxConcurrentFeeds) starts the next queued task
\* while fewer than the limit are active
PoolStart(f) ==
    /\ mainPc = "processing"
    /\ run.variant = "pooled"
    /\ task[f].pc = "queued"
    /\ \A g \in FeedIds : g < f => task[g].pc # "queued"
    /\ activeCount < run.maxConcurrentFeeds
    /\ task' = [task EXCEPT ![f].pc = "fetching"]
    /\ UNCHANGED <<run, mainPc, report, digests>>

\* for (const feed of ...): the next iteration starts when the previous one
\* has finished
LoopStart(f) ==
    /\ mainPc = "processing"
    /\ run.variant \in {"legacy", "daily"}
    /\ task[f].pc = "queued"
    /\ \A g \in FeedIds : g < f => task[g].pc # "queued"
    /\ activeCount = 0
    /\ task' = [task EXCEPT ![f].pc = "fetching"]
    /\ UNCHANGED <<run, mainPc, report, digests>>

\* const entries = await fetchFeedEntries(feed), and what follows up to the
\* first item
FetchEntries(f) ==
    /\ task[f].pc = "fetching"
    /\ \/ /\ task' = [task EXCEPT ![f].pc = "settled", ![f].failed = TRUE]
          /\ report' = recordFeedResult(report, FALSE, TRUE)
       \/ \E n \in 0 .. MaxEntries :
             IF run.variant = "daily"
             THEN /\ task' = [task EXCEPT ![f] = [pc |-> IF n > 0 THEN "scanned" ELSE "settled",
                                                   i |-> 0, n |-> n, failed |-> FALSE, threw |-> 0, hits |-> 0]]
                  /\ report' = recordFeedResult(report, TRUE, FALSE)
             ELSE IF n = 0
             THEN /\ task' = [task EXCEPT ![f].pc = "settled"]
                  /\ report' = recordFeedResult(report, TRUE, FALSE)
             ELSE /\ task' = [task EXCEPT ![f] = [pc |-> "item", i |-> 1, n |-> n, failed |-> FALSE, threw |-> 0, hits |-> 0]]
                  /\ report' = IF run.variant = "legacy"
                               THEN recordFeedArticles(report, n) ELSE report
    /\ UNCHANGED <<run, mainPc, digests>>

\* daily digest mode, second loop: the feeds with articles, up to maxFeeds
DailyProcess(f) ==
    /\ mainPc = "processing"
    /\ run.variant = "daily"
    /\ \A g \in FeedIds : task[g].pc # "queued"
    /\ activeCount = 0
    /\ task[f].pc = "scanned"
    /\ \A g \in FeedIds : g < f => task[g].pc # "scanned"
    /\ Rank(f) < run.maxFeeds
    /\ task' = [task EXCEPT ![f].pc = "item", ![f].i = 1]
    /\ report' = recordFeedArticles(report, task[f].n)
    /\ UNCHANGED <<run, mainPc, digests>>

\* after an item and its delay: the next item, or the end of the feed
AfterItem(tk, f, r) ==
    IF tk[f].i < tk[f].n
    THEN [task |-> [tk EXCEPT ![f].i = @ + 1, ![f].pc = "item"], report |-> r]
    ELSE [task |-> [tk EXCEPT ![f].pc = IF run.delayBetweenFeeds THEN "feedDelay"
                                        ELSE "settled"],
          report |-> IF run.variant = "daily" THEN r ELSE recordFeedResult(r, TRUE, FALSE)]

\* how generateMultiLayerDigest settles for an item: it returns a digest it
\* generated, returns the digest the cache held, or throws
DigestOutcomes == {"generated", "cached", "threw"}

ItemSettle_abortsFeed(f) ==
    /\ task[f].pc = "item"
    /\ \E outcome \in DigestOutcomes :
         LET ok == outcome # "threw"
             r == recordItemResult(report, IF ok THEN "success" ELSE "failed", ~ok)
             tk == [task EXCEPT ![f].threw = IF ok THEN @ ELSE @ + 1,
                                ![f].hits = IF outcome = "cached" THEN @ + 1 ELSE @]
             after == AfterItem(tk, f, r)
         IN  /\ digests' = IF ok THEN Append(digests, [feed |-> f, i |-> task[f].i])
                           ELSE digests
             /\ IF ~ok
                THEN /\ task' = [tk EXCEPT ![f].pc = "settled", ![f].failed = TRUE]
                     /\ report' = recordFeedResult(r, FALSE, TRUE)
                ELSE /\ task' = after.task
                     /\ report' = after.report
    /\ UNCHANGED <<run, mainPc>>

\* await generateMultiLayerDigest(openai, item) settles; threw counts the
\* items of the feed for which it threw, hits those served from the cache
ItemSettle(f) ==
    /\ task[f].pc = "item"
    /\ \E outcome \in DigestOutcomes :
         LET ok == outcome # "threw"
             r == recordItemResult(report, IF ok THEN "success" ELSE "failed", ~ok)
             tk == [task EXCEPT ![f].threw = IF ok THEN @ ELSE @ + 1,
                                ![f].hits = IF outcome = "cached" THEN @ + 1 ELSE @]
             delayed == /\ run.delayBetweenItems
                        /\ run.variant = "pooled" => task[f].i < task[f].n
             after == AfterItem(tk, f, r)
         IN  /\ digests' = IF ok THEN Append(digests, [feed |-> f, i |-> task[f].i])
                           ELSE digests
             /\ IF delayed
                THEN /\ task' = [tk EXCEPT ![f].pc = "itemDelay"]
                     /\ report' = r
                ELSE /\ task' = after.task
                     /\ report' = after.report
    /\ UNCHANGED <<run, mainPc>>

ItemDelayDone(f) ==
    /\ task[f].pc = "itemDelay"
    /\ task' = AfterItem(task, f, report).task
    /\ report' = AfterItem(task, f, report).report
    /\ UNCHANGED <<run, mainPc, digests>>

FeedDelayDone(f) ==
    /\ task[f].pc = "feedDelay"
    /\ task' = [task EXCEPT ![f].pc = "settled"]
    /\ UNCHANGED <<run, mainPc, report, digests>>

\* Promise.all of the pool's tasks has resolved, or the loops have ended
Finished ==
    \A f \in FeedIds :
       \/ task[f].pc \in {"settled", "skipped"}
       \/ run.variant = "daily" /\ task[f].pc = "scanned" /\ Rank(f) >= run.maxFeeds

\* if (!digests.length) { report and return }
Collect ==
    /\ mainPc = "processing"
    /\ Finished
    /\ mainPc' = IF digests = <<>> THEN "reporting" ELSE "publishing"
    /\ UNCHANGED <<run, task, report, digests>>

\* publish time of the i-th entry of feed f: the feeds list their entries
\* newest first, and the i-th entries of all feeds were published together
ItemPublishedAt(f, i) == MaxEntries - i

\* title and link of the i-th entry of feed f: feeds 1 and 2 both carry the
\* same article (same title, link and publish date) as their first entry;
\* the entries of feed 3 have neither a link nor a title of their own (they
\* are all titled 'Untitled entry')
NoLink == <<0, 0>>
ItemTitle(f, i) == IF i = 1 /\ f <= 2 THEN <<1, 1>> ELSE IF f = 3 THEN <<3, 0>> ELSE <<f, i>>
ItemLink(f, i) == IF i = 1 /\ f <= 2 THEN <<1, 1>> ELSE IF f = 3 THEN NoLink ELSE <<f, i>>

\* generateItemHash of the entry: sha256 of title|link|publishedAt
ItemFingerprint(f, i) == <<ItemTitle(f, i), ItemLink(f, i), ItemPublishedAt(f, i)>>

\* buildAtomFeed: id: digest.link || sha1(digest.title)
AtomEntryId(d) ==
    IF ItemLink(d.feed, d.i) # NoLink THEN <<"link", ItemLink(d.feed, d.i)>>
    ELSE <<"sha1", ItemTitle(d.feed, d.i)>>

\* dateB - dateA of two digests
CompareDigests(a, b) == ItemPublishedAt(b.feed, b.i) - ItemPublishedAt(a.feed, a.i)

RECURSIVE InsertDigest(_, _)
InsertDigest(sorted, d) ==
    IF sorted = <<>> THEN <<d>>
    ELSE IF CompareDigests(sorted[Len(sorted)], d) <= 0 THEN Append(sorted, d)
    ELSE Append(InsertDigest(SubSeq(sorted, 1, Len(sorted) - 1), d), sorted[Len(sorted)])

\* digests.sort(...): stable, newest first
RECURSIVE SortDigests(_)
SortDigests(seq) ==
    IF seq = <<>> THEN <<>>
    ELSE InsertDigest(SortDigests(SubSeq(seq, 1, Len(seq) - 1)), seq[Len(seq)])

\* groupDigestsByFeed, read feed after feed: the feeds in the order of their
\* titles (the order of FeedIds), each feed's digests sorted newest first
RECURSIVE GroupedUpTo(_, _)
GroupedUpTo(seq, f) ==
    IF f = 0 THEN <<>>
    ELSE LET ofFeed(d) == d.feed = f
         IN  GroupedUpTo(seq, f - 1) \o SortDigests(SelectSeq(seq, ofFeed))

groupDigestsByFeed(seq) == GroupedUpTo(seq, NFeeds)

\* the order in which the written feed presents the digests
PublishedOrder == IF run.variant = "daily" THEN groupDigestsByFeed(digests) ELSE digests

\* build the feed (legacy and pooled: sorting the digests array in place)
\* and await writeOutput(config.outputFeed, atomXml)
WriteOutput ==
    /\ mainPc = "publishing"
    /\ \E ok \in BOOLEAN : mainPc' = IF ok THEN "reporting" ELSE "failed"
    /\ digests' = IF run.variant = "daily" THEN digests ELSE SortDigests(digests)
    /\ UNCHANGED <<run, task, report>>

\* const finalReport = finalizeReport(report); await saveReports(finalReport)
SaveReports ==
    /\ mainPc = "reporting"
    /\ \E ok \in BOOLEAN :
          /\ mainPc' = IF ok THEN "done" ELSE "failed"
          /\ report' = [report EXCEPT !.finalized = @ + 1, !.saved = ok]
    /\ UNCHANGED <<run, task, digests>>

MainNext ==
    \/ Startup /\ UNCHANGED <<retryVars, pureVars, cacheVars, pub>>
    \/ \E f \in FeedIds : PoolStart(f) /\ UNCHANGED <<retryVars, pureVars, cacheVars, pub>>
    \/ \E f \in FeedIds : LoopStart(f) /\ UNCHANGED <<retryVars, pureVars, cacheVars, pub>>
    \/ \E f \in FeedIds : FetchEntries(f) /\ UNCHANGED <<retryVars, pureVars, cacheVars, pub>>
    \/ \E f \in FeedIds : DailyProcess(f) /\ UNCHANGED <<retryVars, pureVars, cacheVars, pub>>
    \/ \E f \in FeedIds : ItemSettle(f) /\ UNCHANGED <<retryVars, pureVars, cacheVars, pub>>
    \/ \E f \in FeedIds : ItemDelayDone(f) /\ UNCHANGED <<retryVars, pureVars, cacheVars, pub>>
    \/ \E f \in FeedIds : FeedDelayDone(f) /\ UNCHANGED <<retryVars, pureVars, cacheVars, pub>>
    \/ Collect /\ UNCHANGED <<retryVars, pureVars, cacheVars, pub>>
    \/ WriteOutput /\ UNCHANGED <<retryVars, pureVars, cacheVars, pub>>
    \/ SaveReports /\ UNCHANGED <<retryVars, pureVars, cacheVars, pub>>

(***************************************************************************)
(* The report collector driven directly: any sequence of recordFeedResult  *)
(* and recordItemResult calls on a fresh collector, with every status the  *)
(* functions document.                                                     *)
(***************************************************************************)
MaxCalls == 5             \* calls made on the collector

ItemStatuses == {"success", "failed", "skipped", "cached"}

ReportInit ==
    /\ run = [variant |-> "legacy", maxFeeds |-> NFeeds, maxConcurrentFeeds |-> 1,
              maxConcurrentItems |-> 1, delayBetweenItems |-> FALSE,
              delayBetweenFeeds |-> FALSE]
    /\ task = [f \in FeedIds |-> Queued]
    /\ mainPc = "calls"
    /\ report = createReportCollector
    /\ digests = <<>>

RecFeed ==
    /\ mainPc = "calls"
    /\ report.feedsTotal + report.itemsTotal < MaxCalls
    /\ \E success \in BOOLEAN, error \in BOOLEAN :
          report' = recordFeedResult(report, success, error)
    /\ UNCHANGED <<run, task, mainPc, digests>>

RecItem ==
    /\ mainPc = "calls"
    /\ report.feedsTotal + report.itemsTotal < MaxCalls
    /\ \E status \in ItemStatuses, error \in BOOLEAN :
          report' = recordItemResult(report, status, error)
    /\ UNCHANGED <<run, task, mainPc, digests>>

ReportNext ==
    \/ RecFeed /\ UNCHANGED <<retryVars, pureVars, cacheVars, pub>>
    \/ RecItem /\ UNCHANGED <<retryVars, pureVars, cacheVars, pub>>

(***************************************************************************)
(* Publishing in daily digest mode: readExistingFeedEntries has parsed the *)
(* output feed of earlier runs; filterEntriesByRetention and               *)
(* buildDailyDigestFeed make the new entry list.  Time is in ticks;        *)
(* DayTicks of them make a UTC day.                                        *)
(***************************************************************************)
DayTicks == 2             \* ticks in a day
Today == 4                \* the UTC day of the run
RetentionDays == 2        \* the positive retention setting explored
MaxPrevious == 3          \* entries in the existing feed

\* what new Date(field) gives: no field, a valid date, or Invalid Date
DateAbsent == [kind |-> "absent", t |-> 0]
ValidDate(t) == [kind |-> "valid", t |-> t]
InvalidDate == [kind |-> "invalid", t |-> 0]

\* an id: "daily" when it matches /daily-digest-(\d{4}-\d{2}-\d{2})/, with
\* the day it names, or ok = FALSE when the digits name no date
DailyId(day) == [kind |-> "daily", day |-> day, ok |-> TRUE]
DailyIdBad == [kind |-> "daily", day |-> 0, ok |-> FALSE]
IdOther == [kind |-> "other", day |-> 0, ok |-> TRUE]
IdAbsent == [kind |-> "absent", day |-> 0, ok |-> TRUE]

FeedEntry(id, published, updated, content) ==
    [id |-> id, published |-> published, updated |-> updated, content |-> content]

CutoffDay == Today - RetentionDays

PreviousEntries ==
    { FeedEntry(DailyId(CutoffDay - 1), ValidDate((CutoffDay - 1) * DayTicks + 1), DateAbsent, "p1"),
      FeedEntry(DailyId(CutoffDay), ValidDate(CutoffDay * DayTicks + 1), DateAbsent, "p2"),
      FeedEntry(DailyId(Today), ValidDate(Today * DayTicks), ValidDate(Today * DayTicks), "p3"),
      FeedEntry(IdOther, ValidDate(CutoffDay * DayTicks), DateAbsent, "p4"),
      FeedEntry(IdOther, ValidDate(CutoffDay * DayTicks - 1), DateAbsent, "p5"),
      FeedEntry(IdOther, DateAbsent, ValidDate(Today * DayTicks - 1), "p6"),
      FeedEntry(IdAbsent, DateAbsent, DateAbsent, "p7"),
      FeedEntry(IdOther, InvalidDate, DateAbsent, "p8"),
      FeedEntry(DailyId(Today - 1), InvalidDate, DateAbsent, "p9"),
      FeedEntry(DailyIdBad, ValidDate(Today * DayTicks - 1), DateAbsent, "p10"),
      FeedEntry(DailyId(Today + 2), ValidDate(Today * DayTicks), DateAbsent, "p11") }

\* start of the UTC day of instant t, in days
UTCDay(t) == t \div DayTicks

\* one day more than the setting
cutoffDate_dayEarlier(t, retentionDays) == (UTCDay(t) - retentionDays - 1) * DayTicks

\* cutoffDate: setUTCDate(getUTCDate() - retentionDays), setUTCHours(0, 0, 0, 0)
cutoffDate(t, retentionDays) == (UTCDay(t) - retentionDays) * DayTicks

\* the date the filter derives for an entry
entryDate(entry) ==
    IF entry.id.kind = "daily"
    THEN IF entry.id.ok THEN ValidDate(entry.id.day * DayTicks) ELSE InvalidDate
    ELSE IF entry.published.kind # "absent" THEN entry.published
    ELSE IF entry.updated.kind # "absent" THEN entry.updated
    ELSE DateAbsent

\* entryDate >= cutoffDate; a comparison with Invalid Date is false
KeptByRetention_lenient(entry, cutoff) ==
    LET d == entryDate(entry)
    IN  IF d.kind = "absent" THEN TRUE
        ELSE d.kind = "valid" /\ d.t >= cutoff - 1

KeptByRetention(entry, cutoff) ==
    LET d == entryDate(entry)
    IN  IF d.kind = "absent" THEN TRUE
        ELSE d.kind = "valid" /\ d.t >= cutoff

filterEntriesByRetention(entries, retentionDays, t) ==
    LET keep(entry) == KeptByRetention(entry, cutoffDate(t, retentionDays))
    IN  SelectSeq(entries, keep)

\* formatDateForId(): the UTC day of now
todayId(t) == DailyId(UTCDay(t))

todayEntry(t) == FeedEntry(todayId(t), ValidDate(t), ValidDate(t), "today")

\* new Date(a.published || a.updated || 0)
SortKey(entry) ==
    IF entry.published.kind # "absent" THEN entry.published
    ELSE IF entry.updated.kind # "absent" THEN entry.updated
    ELSE ValidDate(0)

\* the comparator dateB - dateA; NaN counts as 0
Compare(a, b) ==
    IF SortKey(a).kind = "invalid" \/ SortKey(b).kind = "invalid" THEN 0
    ELSE SortKey(b).t - SortKey(a).t

RECURSIVE InsertSorted(_, _)
InsertSorted(sorted, e) ==
    IF sorted = <<>> THEN <<e>>
    ELSE IF Compare(sorted[Len(sorted)], e) <= 0 THEN Append(sorted, e)
    ELSE Append(InsertSorted(SubSeq(sorted, 1, Len(sorted) - 1), e), sorted[Len(sorted)])

RECURSIVE StableSort(_)
StableSort(seq) ==
    IF seq = <<>> THEN <<>>
    ELSE InsertSorted(StableSort(SubSeq(seq, 1, Len(seq) - 1)), seq[Len(seq)])

\* a comparator under which "compares equal" is not transitive is not a
\* consistent comparison function
ConsistentComparator(seq) ==
    \A i, j, k \in 1 .. Len(seq) :
       Compare(seq[i], seq[j]) = 0 /\ Compare(seq[j], seq[k]) = 0
          => Compare(seq[i], seq[k]) = 0

Orderings(seq) ==
    {[i \in 1 .. Len(seq) |-> seq[p[i]]] :
        p \in {q \in [1 .. Len(seq) -> 1 .. Len(seq)] :
                  \A i, j \in 1 .. Len(seq) : q[i] = q[j] => i = j}}

\* Array.prototype.sort: stable; with an inconsistent comparator the order
\* is implementation-defined
SortOutcomes(seq) ==
    IF ConsistentComparator(seq) THEN {StableSort(seq)} ELSE Orderings(seq)

filteredPrevious_keepsAll(previousEntries, t) == previousEntries

\* previousEntries.filter(entry => entry.id !== `daily-digest-${dateId}`)
filteredPrevious(previousEntries, t) ==
    LET other(entry) == entry.id # todayId(t)
    IN  SelectSeq(previousEntries, other)

PubStart(existing, t, retentionDays) ==
    [pc |-> "read", now |-> t, retentionDays |-> retentionDays,
     existing |-> existing, retained |-> <<>>, allEntries |-> <<>>, runNo |-> 1]

PubInit ==
    \E n \in 0 .. MaxPrevious :
       \E existing \in [1 .. n -> PreviousEntries] :
          \E t \in {Today * DayTicks, Today * DayTicks + DayTicks - 1} :
             \E retentionDays \in {0, RetentionDays} :
                pub = PubStart(existing, t, retentionDays)

PubIdle == pub = PubStart(<<>>, Today * DayTicks, RetentionDays)

\* const retainedEntries = filterEntriesByRetention(existingEntries, ...)
Retain ==
    /\ pub.pc = "read"
    /\ pub' = [pub EXCEPT !.pc = "retained",
                          !.retained = filterEntriesByRetention(pub.existing,
                                                                pub.retentionDays, pub.now)]

\* today's entry put in front of all the retained entries
Build_unfiltered ==
    /\ pub.pc = "retained"
    /\ \E sorted \in SortOutcomes(<<todayEntry(pub.now)>> \o pub.retained) :
          pub' = [pub EXCEPT !.pc = "built", !.allEntries = sorted]

\* atomXml = buildDailyDigestFeed(groupedDigests, retainedEntries)
Build ==
    /\ pub.pc = "retained"
    /\ \E sorted \in SortOutcomes(<<todayEntry(pub.now)>> \o filteredPrevious(pub.retained, pub.now)) :
          pub' = [pub EXCEPT !.pc = "built", !.allEntries = sorted]

PubNext ==
    \/ Retain /\ UNCHANGED <<retryVars, pureVars, cacheVars, mainVars>>
    \/ Build /\ UNCHANGED <<retryVars, pureVars, cacheVars, mainVars>>

(***************************************************************************)
(* Daily runs one after the other: each reads the feed the run before it   *)
(* wrote.  The first run finds no feed or one whose entries have pairwise  *)
(* different ids.                                                          *)
(***************************************************************************)
MaxRuns == 3              \* daily runs in a row
LastInstant == (Today + 2) * DayTicks - 1     \* the clock stops at the end of the day after tomorrow

NoDuplicateIds(entries) ==
    \A i, j \in 1 .. Len(entries) : i # j => entries[i].id # entries[j].id

\* the entries of the output file as the next run parses them: id,
\* published and updated are element texts, written and read back as strings
readExistingFeedEntries(written) ==
    [i \in 1 .. Len(written) |->
        FeedEntry(written[i].id, written[i].published, written[i].updated, written[i].content)]

RollingInit ==
    \E n \in 0 .. MaxPrevious :
       \E existing \in [1 .. n -> PreviousEntries] :
          \E t \in {Today * DayTicks, Today * DayTicks + DayTicks - 1} :
             \E retentionDays \in {0, RetentionDays} :
                /\ NoDuplicateIds(existing)
                /\ pub = PubStart(existing, t, retentionDays)

\* the next run, later the same day or on a later day
PubAgain ==
    /\ pub.pc = "built"
    /\ pub.runNo < MaxRuns
    /\ \E t \in pub.now .. LastInstant :
          pub' = [PubStart(readExistingFeedEntries(pub.allEntries), t, pub.retentionDays)
                    EXCEPT !.runNo = pub.runNo + 1]

RollingNext ==
    \/ PubNext
    \/ PubAgain /\ UNCHANGED <<retryVars, pureVars, cacheVars, mainVars>>

(***************************************************************************)
(* Stand-alone evaluations of the two pure functions.                      *)
(***************************************************************************)
(***************************************************************************)
(* The start of main: requireEnv, verifyApiKey, loadFeedDefinitions.       *)
(***************************************************************************)
MaxOutlines == 3          \* outline nodes in the OPML file

\* process.env.OPENAI_API_KEY: not set, empty, whitespace only, or a key
ApiKeys == {"unset", "", " ", "sk"}
Urls == {"", "u1", "u2"}
OutlineNodes == [title : {"t1", "t2"}, xmlUrl : Urls]
OpmlInputs == UNION {[1 .. n -> OutlineNodes] : n \in 0 .. MaxOutlines}

requireEnv(value) ==
    IF value = "unset" THEN [threw |-> TRUE, value |-> ""]
    ELSE IF value = "" THEN [threw |-> TRUE, value |-> ""]
    ELSE IF value = " " THEN [threw |-> TRUE, value |-> ""]
    ELSE [threw |-> FALSE, value |-> value]

\* the nodes with an xmlUrl, in document order
flattenFeeds(nodes) ==
    LET hasUrl(node) == node.xmlUrl # ""
    IN  SelectSeq(nodes, hasUrl)

RECURSIVE LoadLoop(_, _, _)
LoadLoop(flattened, seen, feeds) ==
    IF flattened = <<>> THEN feeds
    ELSE LET feed == Head(flattened)
         IN  IF feed.xmlUrl = "" \/ feed.xmlUrl \in seen
             THEN LoadLoop(Tail(flattened), seen, feeds)
             ELSE LoadLoop(Tail(flattened), seen \cup {feed.xmlUrl}, Append(feeds, feed))

RECURSIVE LoadLoopLast(_, _)
LoadLoopLast(flattened, feeds) ==
    IF flattened = <<>> THEN feeds
    ELSE LET feed == Head(flattened)
             later == {i \in 1 .. Len(flattened) - 1 : Tail(flattened)[i].xmlUrl = feed.xmlUrl}
         IN  IF feed.xmlUrl = "" \/ later # {}
             THEN LoadLoopLast(Tail(flattened), feeds)
             ELSE LoadLoopLast(Tail(flattened), Append(feeds, feed))

loadFeedDefinitions_keepsLast(outlines) ==
    LET feeds == LoadLoopLast(flattenFeeds(outlines), <<>>)
    IN  [threw |-> feeds = <<>>, feeds |-> feeds]

\* throws when no feed is left
loadFeedDefinitions(outlines) ==
    LET feeds == LoadLoop(flattenFeeds(outlines), {}, <<>>)
    IN  [threw |-> feeds = <<>>, feeds |-> feeds]

StQuiet == [pc |-> "idle", apiKey |-> "sk", outlines |-> <<>>, feeds |-> <<>>, fetched |-> 0]
StartIdle == st = StQuiet

StartInit ==
    \E key \in ApiKeys, outlines \in OpmlInputs :
       st = [pc |-> "requireEnv", apiKey |-> key, outlines |-> outlines, feeds |-> <<>>,
             fetched |-> 0]

\* const apiKey = requireEnv('OPENAI_API_KEY')
StRequireEnv ==
    /\ st.pc = "requireEnv"
    /\ st' = [st EXCEPT !.pc = IF requireEnv(st.apiKey).threw THEN "aborted" ELSE "verify"]
    /\ UNCHANGED <<retryVars, cls, bk, ne, tf, cacheVars, mainVars, pub>>

\* await verifyApiKey(openai): a test call to the summarization service
StVerifyApiKey ==
    /\ st.pc = "verify"
    /\ \E ok \in BOOLEAN : st' = [st EXCEPT !.pc = IF ok THEN "load" ELSE "aborted"]
    /\ UNCHANGED <<retryVars, cls, bk, ne, tf, cacheVars, mainVars, pub>>

\* const feeds = await loadFeedDefinitions(); parseOpml may fail on the file
StLoadFeeds ==
    /\ st.pc = "load"
    /\ \E parsed \in BOOLEAN :
          LET loaded == loadFeedDefinitions(st.outlines)
          IN  st' = IF parsed /\ ~loaded.threw
                    THEN [st EXCEPT !.pc = "processing", !.feeds = loaded.feeds]
                    ELSE [st EXCEPT !.pc = "aborted"]
    /\ UNCHANGED <<retryVars, cls, bk, ne, tf, cacheVars, mainVars, pub>>

\* the first fetchFeedEntries call of the run
StFirstFetch ==
    /\ st.pc = "processing"
    /\ st' = [st EXCEPT !.pc = "fetching", !.fetched = @ + 1]
    /\ UNCHANGED <<retryVars, cls, bk, ne, tf, cacheVars, mainVars, pub>>

StartNext == StRequireEnv \/ StVerifyApiKey \/ StLoadFeeds \/ StFirstFetch

(***************************************************************************)
(* One feed entry through two runs: normalizeEntry at the fetch (or the    *)
(* feed cache in the second run), the today filter in daily digest mode,   *)
(* and the fingerprint under which its digest is looked up and stored.     *)
(***************************************************************************)
MaxClock == 3             \* the entry clock stops here: two days of DayTicks

NoHash == <<"", "", 0>>
RawEntries == [title : {"A"}, link : {"a"}, description : {"long"},
               published : {RawAbsent, RawUnparsable}
                             \cup {toISOString(DateOf(t)) : t \in 0 .. MaxClock}]

normalizeEntry(entry, t) ==
    [title |-> entry.title, link |-> entry.link,
     publishedAt |-> coerceDate(entry.published, t), description |-> entry.description]

\* getTodayRange at instant t, and the filter on publishedAt
filterTodayArticles(entries, t) ==
    LET inToday(entry) == UTCDay(entry.publishedAt.t) = UTCDay(t)
    IN  SelectSeq(entries, inToday)

NeQuiet == [pc |-> "idle", mode |-> "daily", raw |-> [title |-> "A", link |-> "a",
            description |-> "long", published |-> RawAbsent],
            clock |-> 0, runNo |-> 1, entry |-> NoItem, listed |-> FALSE,
            normalizedRun |-> 0, normalizedAt |-> 0, filteredRun |-> 0, filteredAt |-> 0,
            kept |-> FALSE, hash1 |-> NoHash, hash2 |-> NoHash]
EntryIdle == ne = NeQuiet

EntryInit ==
    \E mode \in {"daily", "legacy"}, raw \in RawEntries :
       ne = [NeQuiet EXCEPT !.pc = "fetch", !.mode = mode, !.raw = raw]

NeTick ==
    /\ ne.pc \in {"fetch", "filter", "digest"}
    /\ ne.clock < MaxClock
    /\ ne' = [ne EXCEPT !.clock = @ + 1]
    /\ UNCHANGED <<retryVars, cls, bk, st, tf, cacheVars, mainVars, pub>>

\* fetchFeedEntries: the entries normalized now, or, in the second run, the
\* first run's entries from a feed cache record still fresh
NeFetch ==
    /\ ne.pc = "fetch"
    /\ \E cached \in BOOLEAN :
          /\ cached => ne.runNo = 2
          /\ ne' = IF cached
                   THEN [ne EXCEPT !.pc = IF ne.mode = "daily" THEN "filter" ELSE "digest",
                                   !.entry = EntryFromJSON(EntryToJSON(ne.entry)),
                                   !.listed = TRUE]
                   ELSE [ne EXCEPT !.pc = IF ne.mode = "daily" THEN "filter" ELSE "digest",
                                   !.entry = normalizeEntry(ne.raw, ne.clock),
                                   !.listed = TRUE,
                                   !.normalizedRun = ne.runNo, !.normalizedAt = ne.clock]
    /\ UNCHANGED <<retryVars, cls, bk, st, tf, cacheVars, mainVars, pub>>

\* the entry after its run: the second run, then the end
NextRun(e) ==
    IF e.runNo = 1 THEN [e EXCEPT !.pc = "fetch", !.runNo = 2, !.listed = FALSE]
    ELSE [e EXCEPT !.pc = "done"]

\* const todayEntries = filterTodayArticles(entries)
NeFilter ==
    /\ ne.pc = "filter"
    /\ LET kept == filterTodayArticles(<<ne.entry>>, ne.clock) # <<>>
           filtered == [ne EXCEPT !.kept = kept, !.filteredRun = ne.runNo,
                                  !.filteredAt = ne.clock]
       IN  ne' = IF kept THEN [filtered EXCEPT !.pc = "digest"] ELSE NextRun(filtered)
    /\ UNCHANGED <<retryVars, cls, bk, st, tf, cacheVars, mainVars, pub>>

\* generateMultiLayerDigest(openai, item): const itemHash = generateItemHash(item)
NeDigest ==
    /\ ne.pc = "digest"
    /\ LET itemHash == generateItemHash(ne.entry)
       IN  ne' = NextRun(IF ne.runNo = 1 THEN [ne EXCEPT !.hash1 = itemHash]
                         ELSE [ne EXCEPT !.hash2 = itemHash])
    /\ UNCHANGED <<retryVars, cls, bk, st, tf, cacheVars, mainVars, pub>>

EntryNext == NeTick \/ NeFetch \/ NeFilter \/ NeDigest

(***************************************************************************)
(* date-filter.js on its own, in milliseconds: the UTC day of the instant  *)
(* of the call, and the dates and entry lists inside it.                   *)
(***************************************************************************)
MaxArticles == 2          \* entries in a list given to filterTodayArticles

EndOfDayMs == 86399999    \* 23:59:59.999 after the start of the day
MsPerDay == EndOfDayMs + 1
Noon == MsPerDay \div 2

\* the instants of the calls, all in the UTC day that starts at MsPerDay
CallInstants == {MsPerDay, MsPerDay + Noon, MsPerDay + EndOfDayMs}

\* the instants the dates name: around both ends of that day, and a day away
DateInstants == {Noon, MsPerDay - 1, MsPerDay, MsPerDay + 1, MsPerDay + Noon,
                 MsPerDay + EndOfDayMs - 1, MsPerDay + EndOfDayMs,
                 MsPerDay + EndOfDayMs + 1, 2 * MsPerDay + Noon}

\* what a caller passes as a date: null, undefined, '', a text that is no
\* date, a Date (valid, or Invalid Date) or an ISO string
DateArgs == [kind : {"null", "undefined", "empty", "text", "InvalidDate"}, t : {0}]
               \cup [kind : {"Date", "iso"}, t : DateInstants]

falsy(value) == value.kind \in {"null", "undefined", "empty"}

\* new Date(value).getTime(), -1 standing for NaN
getTime(value) == IF value.kind \in {"Date", "iso"} THEN value.t ELSE -1

\* whole seconds only: the last 999 ms of the day are left out
getTodayRange_wholeSeconds(t) ==
    [start |-> (t \div MsPerDay) * MsPerDay,
     end |-> (t \div MsPerDay) * MsPerDay + EndOfDayMs - 999]

\* Date.UTC(year, month, day, 0, 0, 0, 0) and Date.UTC(year, month, day, 23, 59, 59, 999)
\* of the instant t of the call
getTodayRange(t) ==
    [start |-> (t \div MsPerDay) * MsPerDay,
     end |-> (t \div MsPerDay) * MsPerDay + EndOfDayMs]

isToday(date, t) ==
    IF falsy(date) THEN FALSE
    ELSE IF getTime(date) = -1 THEN FALSE
    ELSE LET range == getTodayRange(t)
         IN  getTime(date) >= range.start /\ getTime(date) <= range.end

\* the dates put into lists: one of each kind of outcome
ListedDates == {[kind |-> "null", t |-> 0], [kind |-> "text", t |-> 0],
                [kind |-> "Date", t |-> MsPerDay - 1], [kind |-> "Date", t |-> MsPerDay],
                [kind |-> "iso", t |-> MsPerDay + EndOfDayMs],
                [kind |-> "Date", t |-> MsPerDay + EndOfDayMs + 1]}
Articles == [title : {"A", "B"}, publishedAt : ListedDates]

\* what a caller passes as entries: null, undefined, or an array
NoArray == {[kind |-> "null", list |-> <<>>], [kind |-> "undefined", list |-> <<>>]}
ArticleLists(n) == UNION {[1 .. k -> Articles] : k \in 0 .. n}
EntriesArgs == NoArray \cup {[kind |-> "array", list |-> l] : l \in ArticleLists(MaxArticles)}

\* filterArticlesByRange, and the body of filterTodayArticles's filter
filterArticlesByRange(entries, start, end) ==
    LET keep(entry) ==
            /\ ~falsy(entry.publishedAt)
            /\ getTime(entry.publishedAt) # -1
            /\ getTime(entry.publishedAt) >= start
            /\ getTime(entry.publishedAt) <= end
    IN  SelectSeq(entries, keep)

\* filterTodayArticles(entries) called at instant t
filterTodayArticlesAt(entries, t) ==
    IF entries.kind # "array" THEN <<>>
    ELSE LET range == getTodayRange(t)
         IN  filterArticlesByRange(entries.list, range.start, range.end)

TfQuiet == [pc |-> "idle", t |-> 0, date |-> [kind |-> "null", t |-> 0],
            entries |-> [kind |-> "null", list |-> <<>>], answer |-> FALSE, kept |-> <<>>]
TodayIdle == tf = TfQuiet

TodayInit == \E t \in CallInstants : tf = [TfQuiet EXCEPT !.pc = "ready", !.t = t]

TfIsToday ==
    /\ tf.pc = "ready"
    /\ \E date \in DateArgs :
          tf' = [tf EXCEPT !.pc = "isToday", !.date = date, !.answer = isToday(date, tf.t)]
    /\ UNCHANGED <<retryVars, cls, bk, st, ne, cacheVars, mainVars, pub>>

TfFilter ==
    /\ tf.pc = "ready"
    /\ \E entries \in EntriesArgs :
          tf' = [tf EXCEPT !.pc = "filtered", !.entries = entries,
                           !.kept = filterTodayArticlesAt(entries, tf.t)]
    /\ UNCHANGED <<retryVars, cls, bk, st, ne, cacheVars, mainVars, pub>>

TodayNext == TfIsToday \/ TfFilter

ClsIdle == [evaluated |-> FALSE, error |-> NoError, retryable |-> FALSE]
BkIdle == [evaluated |-> FALSE, attempt |-> 0, baseDelay |-> 0, maxDelay |-> 0, k |-> 0, delay |-> 0]

ClsInit == cls = ClsIdle
BkInit == bk = BkIdle

Classify ==
    /\ ~cls.evaluated
    /\ \E e \in Errors :
          cls' = [evaluated |-> TRUE, error |-> e, retryable |-> isRetryableError(e)]
    /\ UNCHANGED <<retryVars, bk, st, ne, tf, cacheVars, mainVars, pub>>

BaseDelays == {0, 1, 3, 1001, DefaultBaseDelayMs}
MaxDelays == {0, 4, 10, DefaultMaxDelayMs}

Backoff ==
    /\ ~bk.evaluated
    /\ \E n \in 0 .. MaxAttemptN, b \in BaseDelays, m \in MaxDelays, k \in 0 .. (JitterSteps - 1) :
          bk' = [evaluated |-> TRUE, attempt |-> n, baseDelay |-> b, maxDelay |-> m, k |-> k,
                 delay |-> calculateBackoffDelay(n, b, m, k)]
    /\ UNCHANGED <<retryVars, cls, st, ne, tf, cacheVars, mainVars, pub>>

(***************************************************************************)
(* Specifications.                                                         *)
(***************************************************************************)
RetryNext ==
    \/ \E r \in Runs : Enter(r) /\ UNCHANGED <<pureVars, cacheVars, mainVars, pub>>
    \/ \E r \in Runs : Invoke(r) /\ UNCHANGED <<pureVars, cacheVars, mainVars, pub>>
    \/ \E r \in Runs : SettleOk(r) /\ UNCHANGED <<pureVars, cacheVars, mainVars, pub>>
    \/ \E r \in Runs : SettleError(r) /\ UNCHANGED <<pureVars, cacheVars, mainVars, pub>>
    \/ \E r \in Runs : Wake(r) /\ UNCHANGED <<pureVars, cacheVars, mainVars, pub>>

InitRetry ==
    RetryInit /\ ClsInit /\ BkInit /\ CacheIdle /\ MainIdle /\ PubIdle /\ StartIdle /\ EntryIdle /\ TodayIdle
SpecRetry == InitRetry /\ [][RetryNext]_vars

InitClassify ==
    RetryIdle /\ ClsInit /\ BkInit /\ CacheIdle /\ MainIdle /\ PubIdle /\ StartIdle /\ EntryIdle /\ TodayIdle
SpecClassify == InitClassify /\ [][Classify]_vars

InitBackoff ==
    RetryIdle /\ ClsInit /\ BkInit /\ CacheIdle /\ MainIdle /\ PubIdle /\ StartIdle /\ EntryIdle /\ TodayIdle
SpecBackoff == InitBackoff /\ [][Backoff]_vars

InitCache ==
    RetryIdle /\ ClsInit /\ BkInit /\ CacheInit /\ MainIdle /\ PubIdle /\ StartIdle /\ EntryIdle /\ TodayIdle
SpecCache == InitCache /\ [][CacheNext]_vars

InitStore ==
    RetryIdle /\ ClsInit /\ BkInit /\ StoreInit /\ MainIdle /\ PubIdle /\ StartIdle /\ EntryIdle /\ TodayIdle
SpecStore == InitStore /\ [][CacheNext]_vars

InitStartup ==
    RetryIdle /\ ClsInit /\ BkInit /\ StartInit /\ EntryIdle /\ CacheIdle /\ MainIdle /\ PubIdle /\ TodayIdle
SpecStartup == InitStartup /\ [][StartNext]_vars

InitEntry ==
    RetryIdle /\ ClsInit /\ BkInit /\ StartIdle /\ EntryInit /\ CacheIdle /\ MainIdle /\ PubIdle /\ TodayIdle
SpecEntry == InitEntry /\ [][EntryNext]_vars

InitToday ==
    RetryIdle /\ ClsInit /\ BkInit /\ CacheIdle /\ MainIdle /\ PubIdle /\ StartIdle /\ EntryIdle /\ TodayInit
SpecToday == InitToday /\ [][TodayNext]_vars

InitReport ==
    RetryIdle /\ ClsInit /\ BkInit /\ CacheIdle /\ (MainInit \/ ReportInit) /\ PubIdle /\ StartIdle /\ EntryIdle /\ TodayIdle
SpecReport == InitReport /\ [][MainNext \/ ReportNext]_vars

InitRolling ==
    RetryIdle /\ ClsInit /\ BkInit /\ CacheIdle /\ MainIdle /\ RollingInit /\ StartIdle /\ EntryIdle /\ TodayIdle
SpecRolling == InitRolling /\ [][RollingNext]_vars

(***************************************************************************)
(* Termination.  A behaviour is either a sequence of pipeline invocations  *)
(* (main idle, never started) or a run of main (the pipeline idle, each    *)
(* await of generateMultiLayerDigest one step of main).  Every await       *)
(* settles: a step that can be taken is eventually taken.                  *)
(***************************************************************************)
CacheParked ==
    /\ cfg = [digestCacheTtlMinutes |-> DigestTtl, feedCacheTtlMinutes |-> FeedTtl,
              enableDigestCache |-> TRUE, enableFullArticleFetch |-> TRUE,
              customPrompt |-> FALSE, maxRetries |-> 1, skipCache |-> FALSE]
    /\ now = 0
    /\ digestCache = [h \in Hashes |-> MissingDigestFile]
    /\ feedCache = [f \in Feeds |-> MissingFeedFile]
    /\ dg = [DgIdle EXCEPT !.n = MaxInvocations]
    /\ ff = FfIdle
MainParked ==
    /\ run = [variant |-> "legacy", maxFeeds |-> NFeeds, maxConcurrentFeeds |-> 1,
              maxConcurrentItems |-> 1, delayBetweenItems |-> FALSE,
              delayBetweenFeeds |-> FALSE]
    /\ task = [f \in FeedIds |-> Queued]
    /\ mainPc = "parked"
    /\ report = createReportCollector
    /\ digests = <<>>
\* the settings explored for termination: one invocation over an empty
\* disk, both caches on and the article fetch on; every feed but one within MAX_FEEDS, items one at a time, both
\* delays on
WorkCacheInit ==
    /\ cfg \in Configs
    /\ cfg.enableDigestCache /\ cfg.enableFullArticleFetch
    /\ cfg.digestCacheTtlMinutes = DigestTtl /\ cfg.feedCacheTtlMinutes = FeedTtl
    /\ now = 0
    /\ digestCache = [h \in Hashes |-> MissingDigestFile]
    /\ feedCache = [f \in Feeds |-> MissingFeedFile]
    /\ dg = [DgIdle EXCEPT !.n = MaxInvocations - 1]
    /\ ff = FfIdle
WorkMainInit ==
    /\ MainInit
    /\ run.maxFeeds = NFeeds - 1 /\ run.maxConcurrentItems = 1
    /\ run.delayBetweenItems /\ run.delayBetweenFeeds
WorkNext == CacheNext \/ MainNext
InitWork ==
    RetryIdle /\ ClsInit /\ BkInit /\ ((WorkCacheInit /\ MainParked) \/ (CacheParked /\ WorkMainInit)) /\ PubIdle /\ StartIdle /\ EntryIdle /\ TodayIdle
SpecWork == InitWork /\ [][WorkNext]_vars /\ WF_vars(WorkNext)

InitMain ==
    RetryIdle /\ ClsInit /\ BkInit /\ CacheIdle /\ MainInit /\ PubIdle /\ StartIdle /\ EntryIdle /\ TodayIdle
SpecMain == InitMain /\ [][MainNext]_vars

InitPublish ==
    RetryIdle /\ ClsInit /\ BkInit /\ CacheIdle /\ MainIdle /\ PubInit /\ StartIdle /\ EntryIdle /\ TodayIdle
SpecPublish == InitPublish /\ [][PubNext]_vars

(***************************************************************************)
(* Properties of the backoff executor.                                     *)
(***************************************************************************)
AllFailed(r) == \A i \in 1 .. exec[r].calls : ~fn[i].ok

\* C3 (as claimed): for maxRetries >= 0 the operation is invoked at least once
\* and at most maxRetries + 1 times; the run returns the value of the first
\* successful invocation and invokes nothing after it; when every invocation
\* failed the run throws the error of the last invocation, with no sleep
\* after that invocation.
ClaimC3_AttemptCap ==
    \A r \in Runs :
        policy.maxRetries >= 0 =>
            /\ exec[r].calls <= policy.maxRetries + 1
            /\ Done(r) => exec[r].calls >= 1
            /\ (Done(r) /\ ~AllFailed(r)) =>
                  /\ fn[exec[r].calls].ok
                  /\ \A i \in 1 .. (exec[r].calls - 1) : ~fn[i].ok
                  /\ exec[r].outcome = [kind |-> "returned", inv |-> exec[r].calls, error |-> NoError]
            /\ (Done(r) /\ AllFailed(r)) =>
                  /\ exec[r].outcome = [kind |-> "threw", inv |-> exec[r].calls,
                                        error |-> fn[exec[r].calls].error]
                  /\ exec[r].sleeps < exec[r].calls

\* C4: when the retryable predicate answers false for the first failure, the
\* run makes exactly one attempt, never sleeps, never calls onRetry, and throws
\* that first error.
ThmC4_NonRetryableShortCircuit ==
    \A r \in Runs :
        ( /\ policy.maxRetries >= 0
          /\ policy.shouldRetry = "isRetryableError"
          /\ ~fn[1].ok
          /\ ~isRetryableError(fn[1].error) ) =>
            /\ exec[r].calls <= 1
            /\ exec[r].sleeps = 0
            /\ exec[r].onRetryCalls = 0
            /\ Done(r) => /\ exec[r].calls = 1
                          /\ exec[r].outcome = [kind |-> "threw", inv |-> 1, error |-> fn[1].error]

WitC4_NonRetryableShortCircuit ==
    /\ policy.maxRetries >= 1
    /\ policy.shouldRetry = "isRetryableError"
    /\ fn[1] = Fail(E400)
    /\ Done("hooked")
    /\ exec["hooked"].calls = 1
    /\ exec["hooked"].outcome.kind = "threw"

\* C6 (as claimed): the un-jittered delay slept before retry n, the first
\* retry being n = 1, is min(baseDelay * 2^n, maxDelay).  A run that sleeps
\* after its n-th invocation sleeps before retry n.
ClaimC6_BackoffGrowth ==
    \A r \in Runs :
        exec[r].pc = "sleeping" =>
            exec[r].lastSleep.capped =
                Min(policy.delays[1] * Pow2(exec[r].calls), policy.delays[2])

\* C6 (amended): the un-jittered delay slept before retry n (n = 1 for the
\* first retry) is min(baseDelay * 2^(n-1), maxDelay).
ThmC6_BackoffGrowth ==
    \A r \in Runs :
        exec[r].pc = "sleeping" =>
            exec[r].lastSleep.capped =
                Min(policy.delays[1] * Pow2(exec[r].calls - 1), policy.delays[2])

WitC6_BackoffGrowth ==
    /\ exec["plain"].pc = "sleeping"
    /\ exec["plain"].calls = 2
    /\ policy.delays = <<DefaultBaseDelayMs, DefaultMaxDelayMs>>
    /\ exec["plain"].lastSleep.capped = 2 * DefaultBaseDelayMs

\* C8 (as claimed): an error whose code is a certificate-validation code is
\* never retried, whatever status, type or message it also carries: under the
\* default classification the executor makes exactly one attempt for it.
ClaimC8_CertNeverRetried ==
    \A r \in Runs :
        ( /\ policy.shouldRetry = "isRetryableError"
          /\ ~fn[1].ok
          /\ fn[1].error.code \in CertCodes ) =>
            /\ exec[r].pc # "sleeping"
            /\ exec[r].calls <= 1

\* C9 (as claimed): the onRetry hook is observability only: with any hook,
\* one that throws included, the run makes as many attempts and ends with the
\* same returned value or thrown operation error as the run with no hook.
ClaimC9_HookObservabilityOnly ==
    (Done("hooked") /\ Done("plain")) =>
        /\ exec["hooked"].calls = exec["plain"].calls
        /\ exec["hooked"].outcome = exec["plain"].outcome

(***************************************************************************)
(* Properties of calculateBackoffDelay.                                    *)
(***************************************************************************)
BkCapped == Min(bk.baseDelay * Pow2(bk.attempt), bk.maxDelay)

\* C5 (as claimed): for every attempt n and jitter draw the delay lies within
\* [0.75 * min(base*2^n, max), 1.25 * min(base*2^n, max)] and is not negative.
ClaimC5_BackoffBounds ==
    bk.evaluated =>
        /\ 4 * bk.delay >= 3 * BkCapped
        /\ 4 * bk.delay <= 5 * BkCapped
        /\ bk.delay >= 0

\* C5 (amended): for baseDelay >= 0 and maxDelay >= 0 the delay is a whole
\* number of milliseconds that is greater than 0.75 * min(base*2^n, max) - 1,
\* at most 1.25 * min(base*2^n, max), and not negative.
ThmC5_BackoffBounds ==
    bk.evaluated =>
        /\ 4 * bk.delay > 3 * BkCapped - 4
        /\ 4 * bk.delay <= 5 * BkCapped
        /\ bk.delay >= 0

WitC5_BackoffBounds ==
    /\ bk.evaluated
    /\ bk.attempt = 0
    /\ BkCapped = 1001
    /\ bk.delay = 750
    /\ 4 * bk.delay < 3 * BkCapped

(***************************************************************************)
(* Properties of isRetryableError.                                         *)
(***************************************************************************)
ClaimedNetworkCodes == {"ECONNRESET", "ETIMEDOUT", "ENOTFOUND", "EAI_AGAIN", "EHOSTUNREACH"}
ServiceRetryTypes == {"rate_limit_error", "server_error"}

\* C7 (as claimed): isRetryableError answers true for every error with a
\* connection-reset/timeout/DNS-failure/host-unreachable code, for every error
\* with HTTP status 429 or 500..599, and for every error of service type
\* rate_limit_error or server_error, whatever its other fields.
ClaimC7_DefaultRetryable ==
    cls.evaluated =>
        ( ( \/ cls.error.code \in ClaimedNetworkCodes
            \/ HttpStatus(cls.error) = 429
            \/ (HttpStatus(cls.error) >= 500 /\ HttpStatus(cls.error) <= 599)
            \/ cls.error.type \in ServiceRetryTypes )
          => cls.retryable )

\* C7 (amended): isRetryableError answers true for every error with such a
\* network code, for every error with HTTP status 429 or 500..504, and for
\* every error of type rate_limit_error or server_error that carries no HTTP
\* status, whatever its other fields.
ThmC7_DefaultRetryable ==
    cls.evaluated =>
        ( ( \/ cls.error.code \in ClaimedNetworkCodes
            \/ HttpStatus(cls.error) = 429
            \/ (HttpStatus(cls.error) >= 500 /\ HttpStatus(cls.error) <= 504)
            \/ (cls.error.type \in ServiceRetryTypes /\ HttpStatus(cls.error) = 0) )
          => cls.retryable )

WitC7_DefaultRetryable ==
    /\ cls.evaluated
    /\ cls.error.code = "CERT_HAS_EXPIRED"
    /\ cls.error.status = 504
    /\ cls.error.type = "invalid_request_error"
    /\ cls.retryable

(***************************************************************************)
(* Claims about the caches.                                                *)
(***************************************************************************)
StoredDigest == digestCache[generateItemHash(dg.item)]
StoredFeed == feedCache[ff.feed]

\* C1: when generateMultiLayerDigest looks up an item whose fingerprint has
\* a non-expired record in the enabled digest cache, the invocation ends at
\* once returning exactly the stored digest, having made no content fetch,
\* no summarization call and no cache write.
ThmC1_CacheIdempotence ==
    [][(/\ dg.pc = "cacheCheck"
        /\ dg' # dg
        /\ digestCacheEnabled
        /\ StoredDigest.file = "valid"
        /\ now - StoredDigest.cachedAt <= digestCacheTtlMs)
       => /\ dg'.pc = "done"
          /\ dg'.status = "returned"
          /\ dg'.result = StoredDigest.digest
          /\ dg'.fetches = 0 /\ dg'.aiCalls = 0 /\ dg'.writes = 0
          /\ digestCache' = digestCache]_vars

\* C1 witness: a second invocation for an item returned the digest that the
\* first one generated and stored.
WitC1_CacheIdempotence ==
    /\ dg.pc = "done" /\ dg.fromCache /\ dg.n = MaxInvocations
    /\ dg.result = StoredDigest.digest
    /\ dg.result.overall = "ai"
    /\ now - StoredDigest.cachedAt = digestCacheTtlMs

\* C2: in an enabled namespace a lookup of a stored record reports it
\* absent iff now - storedAt > ttl of that namespace; a record stored at
\* now - ttl - 1 is absent and one stored at now - ttl + 1 is present.
ThmC2_TtlExpiry ==
    [][/\ (/\ dg.pc = "cacheCheck" /\ dg' # dg
           /\ digestCacheEnabled /\ StoredDigest.file = "valid")
          => /\ ~dg'.fromCache <=> now - StoredDigest.cachedAt > digestCacheTtlMs
             /\ StoredDigest.cachedAt = now - digestCacheTtlMs - 1 => ~dg'.fromCache
             /\ StoredDigest.cachedAt = now - digestCacheTtlMs + 1 => dg'.fromCache
       /\ (/\ ff.pc = "read" /\ ff' # ff
           /\ feedCacheEnabled /\ StoredFeed.file = "valid")
          => /\ ~ff'.fromCache <=> now - StoredFeed.fetchedAt > feedCacheTtlMs
             /\ StoredFeed.fetchedAt = now - feedCacheTtlMs - 1 => ~ff'.fromCache
             /\ StoredFeed.fetchedAt = now - feedCacheTtlMs + 1 => ff'.fromCache]_vars

\* C2 witness: a lookup has just reported absent a digest stored ttl + 1
\* before it.
WitC2_TtlExpiry ==
    /\ dg.pc = "fetch"
    /\ digestCacheEnabled
    /\ StoredDigest.file = "valid"
    /\ StoredDigest.cachedAt = now - digestCacheTtlMs - 1

(***************************************************************************)
(* Claims about main.                                                      *)
(***************************************************************************)
\* C10: at every instant of a run the number of feeds being processed is at
\* most maxConcurrentFeeds and the number of items in flight within one feed
\* is at most maxConcurrentItems (both limits at least 1), and main is past
\* processing, publishing or reporting, only when no feed is waiting or
\* being processed.
ThmC10_ConcurrencyCeiling ==
    /\ activeCount <= run.maxConcurrentFeeds
    /\ \A f \in FeedIds : ItemsInFlight(f) <= run.maxConcurrentItems
    /\ mainPc \in {"publishing", "reporting", "done", "failed"}
          => \A f \in FeedIds : ~Running(f) /\ task[f].pc # "queued"

\* C10 witness: the pool is full, with an item in flight, while a further
\* feed waits for a slot.
WitC10_ConcurrencyCeiling ==
    /\ run.variant = "pooled"
    /\ run.maxConcurrentFeeds = MaxFeedLimit
    /\ activeCount = run.maxConcurrentFeeds
    /\ \E f \in FeedIds : task[f].pc = "queued"
    /\ \E f \in FeedIds : ItemsInFlight(f) = 1

PastProcessing == mainPc \in {"publishing", "reporting", "done", "failed"}
FailedFeeds == {f \in FeedIds : task[f].failed}
AttemptedFeeds == {f \in FeedIds : task[f].pc # "skipped"}
\* the feeds whose items main goes on to process
SelectedFeeds ==
    {f \in FeedIds : task[f].n > 0 /\ (run.variant = "daily" => Rank(f) < run.maxFeeds)}
DigestSet == {digests[k] : k \in 1 .. Len(digests)}

\* C11: when main is past processing, exactly one feed's fetch has failed
\* and no item has failed, every other feed within the feed limit has been
\* fetched, every item of every feed selected for processing has its digest
\* in the digest list, and the report counts one failed feed, one feed
\* error and all other feeds as successful.
ThmC11_SourceFailureIsolation ==
    (PastProcessing /\ Cardinality(FailedFeeds) = 1 /\ report.itemsFailed = 0)
    => /\ report.feedsFailed = 1
       /\ report.feedErrors = 1
       /\ report.feedsSuccessful = Cardinality(AttemptedFeeds) - 1
       /\ \A f \in AttemptedFeeds \ FailedFeeds :
             /\ task[f].pc \in {"settled", "scanned"}
             /\ f \in SelectedFeeds
                  => \A i \in 1 .. task[f].n : [feed |-> f, i |-> i] \in DigestSet

\* C11 witness: the first feed failed, two later feeds were processed and
\* the run finished.
WitC11_SourceFailureIsolation ==
    /\ mainPc = "done"
    /\ FailedFeeds = {1}
    /\ report.itemsFailed = 0
    /\ Cardinality(SelectedFeeds) = 2
    /\ Len(digests) >= 3

\* items of feed f whose digest call has settled
SettledItems(f) == IF task[f].pc = "item" THEN task[f].i - 1 ELSE task[f].i
DigestsOf(f) == Cardinality({d \in DigestSet : d.feed = f})
RECURSIVE ThrewUpTo(_)
ThrewUpTo(f) == IF f = 0 THEN 0 ELSE task[f].threw + ThrewUpTo(f - 1)

\* C12: every item for which generateMultiLayerDigest threw is recorded
\* exactly once as failed, with its error, and has no digest; the remaining
\* items of its feed are still processed and the feed is still recorded as
\* successful.
ThmC12_ItemFailureIsolation ==
    /\ report.itemsFailed = ThrewUpTo(NFeeds)
    /\ report.itemErrors = ThrewUpTo(NFeeds)
    /\ report.itemsTotal = report.itemsSuccessful + report.itemsFailed
    /\ Len(digests) = report.itemsSuccessful
    /\ \A f \in FeedIds : DigestsOf(f) + task[f].threw = SettledItems(f)
    /\ PastProcessing
         => /\ \A f \in SelectedFeeds : task[f].i = task[f].n /\ ~task[f].failed
            /\ report.feedsSuccessful = Cardinality(AttemptedFeeds \ FailedFeeds)
            /\ report.feedsFailed = Cardinality(FailedFeeds)

\* C12 witness: a run has finished in which the digest of the first of a
\* feed's two items threw and the second item got its digest.
WitC12_ItemFailureIsolation ==
    /\ mainPc = "done"
    /\ \E f \in FeedIds :
          /\ task[f].n = 2 /\ task[f].threw = 1 /\ ~task[f].failed
          /\ [feed |-> f, i |-> 1] \notin DigestSet
          /\ [feed |-> f, i |-> 2] \in DigestSet

\* C13: in every run that has passed startup and has ended, whatever
\* failed while processing or publishing, finalizeReport has been called
\* exactly once; and it is never called more than once.
ClaimC13_ReportAlwaysProduced ==
    /\ report.finalized <= 1
    /\ mainPc \in {"done", "failed"} => report.finalized = 1

(***************************************************************************)
(* Claims about publishing.                                                *)
(***************************************************************************)
Filtered == pub.pc \in {"retained", "built"}
Occurrences(seq, e) == Cardinality({k \in 1 .. Len(seq) : seq[k] = e})
InSeq(seq, e) == \E k \in 1 .. Len(seq) : seq[k] = e
\* start of the current UTC day minus retentionDays days
ClaimedCutoff == (pub.now \div DayTicks) * DayTicks - pub.retentionDays * DayTicks

\* C14: filterEntriesByRetention keeps an entry whose date (from its
\* daily-digest id, else published, else updated) is a valid date iff that
\* date >= start of the current UTC day minus retentionDays days, and the
\* kept entries stay in their order.
ThmC14_RetentionCorrectness ==
    Filtered =>
       /\ \A e \in PreviousEntries :
             entryDate(e).kind = "valid" =>
                Occurrences(pub.retained, e) =
                   IF entryDate(e).t >= ClaimedCutoff
                   THEN Occurrences(pub.existing, e) ELSE 0
       /\ LET kept(e) == InSeq(pub.retained, e)
          IN  pub.retained = SelectSeq(pub.existing, kept)

\* C14 witness: of three dated entries the one dated the day before the
\* cutoff was dropped and the two dated at the cutoff were kept, in order.
WitC14_RetentionCorrectness ==
    /\ pub.pc = "retained"
    /\ pub.retentionDays = RetentionDays
    /\ Len(pub.existing) = 3
    /\ \A k \in 1 .. 3 : entryDate(pub.existing[k]).kind = "valid"
    /\ entryDate(pub.existing[1]).t = ClaimedCutoff
    /\ entryDate(pub.existing[2]).t = ClaimedCutoff - DayTicks
    /\ entryDate(pub.existing[3]).t = ClaimedCutoff
    /\ pub.existing[1] # pub.existing[3]
    /\ pub.retained = <<pub.existing[1], pub.existing[3]>>

\* an entry with no date: its id names no valid day and neither published
\* nor updated parses
Undeterminable(e) ==
    /\ ~(e.id.kind = "daily" /\ e.id.ok)
    /\ e.published.kind # "valid"
    /\ e.updated.kind # "valid"

\* C15: every previous entry whose date cannot be determined is retained by
\* filterEntriesByRetention.
ClaimC15_UndeterminableKept ==
    Filtered =>
       \A k \in 1 .. Len(pub.existing) :
          Undeterminable(pub.existing[k]) => InSeq(pub.retained, pub.existing[k])

\* C16: the entry list built by buildDailyDigestFeed contains exactly one
\* entry with the id of the current run's entry, the current run's entry
\* itself, also when a retained previous entry has that id.
ThmC16_IdentityCollision ==
    pub.pc = "built" =>
       /\ Cardinality({k \in 1 .. Len(pub.allEntries) :
                          pub.allEntries[k].id = todayId(pub.now)}) = 1
       /\ \A k \in 1 .. Len(pub.allEntries) :
             pub.allEntries[k].id = todayId(pub.now)
                => pub.allEntries[k] = todayEntry(pub.now)

\* C16 witness: a feed was built although two retained previous entries
\* carried today's id.
WitC16_IdentityCollision ==
    /\ pub.pc = "built"
    /\ Cardinality({k \in 1 .. Len(pub.retained) :
                       pub.retained[k].id = todayId(pub.now)}) = 2
    /\ Len(pub.allEntries) = Len(pub.retained) - 1

\* C17: the entry list built by buildDailyDigestFeed holds the current
\* run's entry and the retained previous entries of other ids, each as often
\* as it was retained, in descending order of timestamp (compared wherever
\* both timestamps are dates).
ClaimC17_MergeOrdering ==
    pub.pc = "built" =>
       /\ \A e \in PreviousEntries \cup {todayEntry(pub.now)} :
             Occurrences(pub.allEntries, e) =
                Occurrences(<<todayEntry(pub.now)>> \o filteredPrevious(pub.retained, pub.now), e)
       /\ \A i, j \in 1 .. Len(pub.allEntries) :
             (/\ i < j
              /\ SortKey(pub.allEntries[i]).kind = "valid"
              /\ SortKey(pub.allEntries[j]).kind = "valid")
             => SortKey(pub.allEntries[i]).t >= SortKey(pub.allEntries[j]).t

\* the digests of the run in the order of their sources: feed by feed, item
\* by item (the order in which a run without concurrency generates them)
RECURSIVE SourceOrderUpTo(_)
SourceOrderUpTo(n) ==
    IF n = 0 THEN <<>>
    ELSE LET f == ((n - 1) \div MaxEntries) + 1
             d == [feed |-> f, i |-> ((n - 1) % MaxEntries) + 1]
         IN  IF d \in DigestSet THEN Append(SourceOrderUpTo(n - 1), d)
             ELSE SourceOrderUpTo(n - 1)
SourceOrder == SourceOrderUpTo(NFeeds * MaxEntries)
OutputBuilt == mainPc \in {"reporting", "done", "failed"} /\ digests # <<>>

\* C18: the order of the digests in the published output depends only on
\* which digests there are, not on the order in which the concurrent tasks
\* completed: it is the order obtained from the digests taken in source
\* order, also when digests have equal publish times.
ClaimC18_DeterministicOrder ==
    OutputBuilt =>
       PublishedOrder = IF run.variant = "daily" THEN groupDigestsByFeed(SourceOrder)
                        ELSE SortDigests(SourceOrder)

\* an invocation that generated (no cache hit), whose content extraction
\* failed and whose summarization calls all failed, has finished
DegradedRun ==
    /\ dg.pc = "done" /\ ~dg.fromCache
    /\ dg.fetchError
    /\ dg.aiCalls > 0 /\ ~dg.aiSucceeded

\* C19: when content extraction fails and every summarization call fails,
\* generateMultiLayerDigest returns (does not throw) a digest with no
\* paragraphs, whose overall is the truncated description and is not empty,
\* and whose oneLine is the truncated overall.
ClaimC19_DegradedDigest ==
    DegradedRun =>
       /\ dg.status = "returned"
       /\ dg.result.paragraphs = 0
       /\ dg.result.overall = truncateText(dg.item.description)
       /\ dg.result.overall # ""
       /\ dg.result.oneLine = truncateText(dg.result.overall)

\* the invocation went past fetchArticleContent, which failed or was disabled
FetchDegraded ==
    /\ dg.pc \notin {"idle", "cacheCheck", "fetch"}
    /\ ~dg.fromCache
    /\ dg.fetchError

\* C20: when fetching the article fails or full fetch is disabled,
\* fetchArticleContent does not throw: the pipeline goes on to generation
\* with the item's description as content (it can end by throwing only after
\* a summarization call), and the digest it returns records
\* fetchedSuccessfully = false.
ThmC20_FetchFailureDegrades ==
    FetchDegraded =>
       /\ dg.content = dg.item.description
       /\ dg.status = "threw" => dg.aiCalls > 0
       /\ dg.pc = "done" => dg.status \in {"returned", "threw"}
       /\ dg.status = "returned" => dg.result.fetchedSuccessfully = FALSE

WitC20_FetchFailureDegrades ==
    /\ FetchDegraded
    /\ cfg.enableFullArticleFetch /\ dg.fetches > 0
    /\ dg.item.description # ""
    /\ dg.aiCalls > 0
    /\ dg.status = "returned"

\* the record a successful write of the finished invocation leaves on disk
FreshDigestRecord ==
    [file |-> "valid", cachedAt |-> now, digest |-> DigestToJSON(AssembledDigest)]
FreshFeedRecord ==
    [file |-> "valid", fetchedAt |-> now,
     entries |-> [i \in 1 .. Len(ff.entries) |-> EntryToJSON(ff.entries[i])]]

\* the finished invocation tried to persist its result and the write failed
DigestWriteFailed ==
    /\ dg.pc = "done" /\ dg.writes > 0
    /\ digestCache[generateItemHash(dg.item)] # FreshDigestRecord
FeedWriteFailed ==
    /\ ff.pc = "done" /\ ff.writes > 0
    /\ feedCache[ff.feed] # FreshFeedRecord

\* C21: a failed cache write is not propagated, in either namespace: the
\* digest just generated (the entries just fetched) are still returned to
\* the caller, which then records the item (the source) as successful.
ClaimC21_WriteFailureNotFatal ==
    /\ DigestWriteFailed => dg.status = "returned" /\ dg.result = AssembledDigest
    /\ FeedWriteFailed => ff.status = "returned"

\* the file the lookup of the running invocation reads is absent or damaged
DigestFileUnusable == StoredDigest.file \in {"missing"} \cup DamagedKinds
FeedFileUnusable == StoredFeed.file \in {"missing"} \cup DamagedKinds

\* C22: in both namespaces a lookup whose file is missing, unreadable, not
\* valid JSON or without a stored-at timestamp reports absent without
\* throwing: the caller goes on to fetch or generate exactly as on an
\* ordinary miss, and a value it returns was first handed to the cache write.
ThmC22_ReadErrorsAreMisses ==
    [][ /\ (dg.pc = "cacheCheck" /\ dg'.pc # "cacheCheck" /\ DigestFileUnusable)
              => dg' = [dg EXCEPT !.pc = "fetch"]
        /\ (ff.pc = "read" /\ ff'.pc # "read" /\ FeedFileUnusable)
              => ff' = [ff EXCEPT !.pc = "fetch"]
        /\ (digestCacheEnabled /\ dg'.status = "returned" /\ ~dg'.fromCache)
              => dg'.writes > 0
        /\ (feedCacheEnabled /\ ff'.status = "returned" /\ ~ff'.fromCache)
              => ff'.writes > 0 ]_vars

WitC22_ReadErrorsAreMisses ==
    /\ feedCacheEnabled
    /\ ff.pc = "fetch"
    /\ StoredFeed.file = "noTimestamp"

\* a namespace is disabled by a TTL <= 0, by --skip-cache and, for the
\* digests, by ENABLE_DIGEST_CACHE=false
DigestNamespaceDisabled ==
    cfg.digestCacheTtlMinutes <= 0 \/ ~cfg.enableDigestCache \/ cfg.skipCache
FeedNamespaceDisabled == cfg.feedCacheTtlMinutes <= 0 \/ cfg.skipCache

\* C23: in a disabled namespace every lookup reports absent, even with a
\* fresh record on disk, and no step changes the storage; the namespace that
\* is enabled serves a valid record exactly while it is within its own TTL
\* and stores what it returns.
ThmC23_DisabledNamespace ==
    [][ /\ DigestNamespaceDisabled => ~dg'.fromCache /\ digestCache' = digestCache
        /\ FeedNamespaceDisabled => ~ff'.fromCache /\ feedCache' = feedCache
        /\ (~DigestNamespaceDisabled /\ dg.pc = "cacheCheck" /\ dg'.pc # "cacheCheck"
              /\ StoredDigest.file = "valid")
              => (dg'.fromCache <=> now - StoredDigest.cachedAt <= cfg.digestCacheTtlMinutes)
        /\ (~FeedNamespaceDisabled /\ ff.pc = "read" /\ ff'.pc # "read"
              /\ StoredFeed.file = "valid")
              => (ff'.fromCache <=> now - StoredFeed.fetchedAt <= cfg.feedCacheTtlMinutes) ]_vars

WitC23_DisabledNamespace ==
    /\ DigestNamespaceDisabled /\ ~FeedNamespaceDisabled
    /\ dg.pc = "done" /\ dg.status = "returned" /\ ~dg.fromCache
    /\ StoredDigest = DigestFileOf("valid", dg.item)
    /\ now - StoredDigest.cachedAt <= DigestTtl

\* a generating invocation has finished and none of its summarization
\* calls succeeded
AllGenerationFailed ==
    /\ dg.pc = "done" /\ ~dg.fromCache
    /\ dg.aiCalls > 0 /\ ~dg.aiSucceeded

\* C24: a digest-cache record is written only by an invocation that missed
\* the cache, and only when generation succeeded: an invocation whose
\* summarization calls all failed leaves no record of its result.
ClaimC24_RecordOnlyAfterSuccess ==
    /\ dg.writes > 0 => ~dg.fromCache
    /\ AllGenerationFailed => dg.writes = 0 /\ StoredDigest # FreshDigestRecord

\* the feeds whose generateMultiLayerDigest call for fingerprint h is awaited
InFlightFor(h) ==
    {f \in FeedIds : task[f].pc = "item" /\ ItemFingerprint(f, task[f].i) = h}

\* C25: during a run no two generateMultiLayerDigest invocations for the
\* same fingerprint are in flight at the same time, also when the same item
\* appears in more than one source; this is what leaves each fingerprint's
\* cache record with a single writer.
ClaimC25_SingleWriter ==
    \A f \in FeedIds :
       task[f].pc = "item" =>
          Cardinality(InFlightFor(ItemFingerprint(f, task[f].i))) <= 1

\* positions of the outlines that are the first to name their endpoint
FirstOccurrences ==
    {i \in 1 .. Len(st.outlines) :
        /\ st.outlines[i].xmlUrl # ""
        /\ \A j \in 1 .. (i - 1) : st.outlines[j].xmlUrl # st.outlines[i].xmlUrl}
NthFirst(k) ==
    CHOOSE i \in FirstOccurrences : Cardinality({j \in FirstOccurrences : j < i}) = k - 1
PastStart == st.pc \in {"processing", "fetching"}

\* C26: the sources loaded are the outlines that are the first to name their
\* endpoint, in input order, one per distinct endpoint; and a run whose
\* credential is missing or whose source list is empty never gets past its
\* start: it aborts with nothing fetched.
ThmC26_SourceList ==
    /\ PastStart =>
          /\ Len(st.feeds) = Cardinality(FirstOccurrences)
          /\ \A k \in 1 .. Len(st.feeds) : st.feeds[k] = st.outlines[NthFirst(k)]
    /\ (requireEnv(st.apiKey).threw \/ FirstOccurrences = {}) => ~PastStart
    /\ st.pc = "aborted" => st.fetched = 0

WitC26_SourceList ==
    /\ st.pc = "fetching"
    /\ Len(st.outlines) = MaxOutlines
    /\ st.outlines[1].xmlUrl = st.outlines[3].xmlUrl
    /\ st.outlines[1].title # st.outlines[3].title
    /\ Len(st.feeds) = 2

\* the feed supplies no publish date for the entry, or one that does not parse
BadDate == ne.raw.published \in {RawAbsent, RawUnparsable}

\* C27: the same feed entry (same title, link and feed-supplied publish
\* date, an absent or unparsable one included) gets the same fingerprint in
\* both runs that process it, which is what lets the second run find the
\* first run's digest in the cache.
ClaimC27_FingerprintStability ==
    (ne.hash1 # NoHash /\ ne.hash2 # NoHash) => ne.hash1 = ne.hash2

\* the run that normalized the entry has put it through its today filter
FilteredInOwnRun ==
    /\ ne.mode = "daily"
    /\ ne.filteredRun # 0 /\ ne.filteredRun = ne.normalizedRun

\* C28 (as claimed): an entry with an absent or unparsable publish date gets
\* the instant of its normalization as publishedAt, is kept in the entry
\* list, and in daily mode passes the today filter of the same run.
ClaimC28_BadDatesNeverDrop ==
    (BadDate /\ ne.normalizedRun # 0) =>
       /\ ne.entry.publishedAt = DateOf(ne.normalizedAt)
       /\ ne.normalizedRun = ne.runNo /\ ne.pc # "fetch" => ne.listed
       /\ FilteredInOwnRun => ne.kept

\* C28 (amended): ... and in daily mode it passes the today filter of the
\* same run when the filter is evaluated on the UTC day of the normalization.
ThmC28_BadDatesNeverDrop ==
    (BadDate /\ ne.normalizedRun # 0) =>
       /\ ne.entry.publishedAt = DateOf(ne.normalizedAt)
       /\ ne.normalizedRun = ne.runNo /\ ne.pc # "fetch" => ne.listed
       /\ (FilteredInOwnRun /\ UTCDay(ne.filteredAt) = UTCDay(ne.normalizedAt)) => ne.kept

WitC28_BadDatesNeverDrop ==
    /\ BadDate
    /\ FilteredInOwnRun
    /\ ne.normalizedAt > 0
    /\ ne.filteredAt > ne.normalizedAt
    /\ ne.kept

\* C29: in flat (legacy) mode two digests get the same published id exactly
\* when they have the same fingerprint, the id of a published entry being
\* the fingerprint of its digest.
ClaimC29_FlatModeIdentity ==
    (OutputBuilt /\ run.variant # "daily") =>
       \A a, b \in 1 .. Len(digests) :
          AtomEntryId(digests[a]) = AtomEntryId(digests[b])
             <=> ItemFingerprint(digests[a].feed, digests[a].i)
                    = ItemFingerprint(digests[b].feed, digests[b].i)

\* with a delay configured, the step that starts the next item of a feed
\* is the end of an item delay
ItemDelayObserved(f) ==
    (run.delayBetweenItems /\ task[f].i >= 1 /\ task'[f].i = task[f].i + 1)
       => task[f].pc = "itemDelay"

\* with a delay configured, the step that settles a source task, releasing
\* its place to the next source, is the end of a feed delay
FeedDelayObserved(f) ==
    (run.delayBetweenFeeds /\ Running(f) /\ task'[f].pc = "settled")
       => task[f].pc = "feedDelay"

\* C30: when the delay between items (between feeds) is configured, after
\* every item (source) task settles, whether it succeeded, failed or had
\* nothing to process, that delay elapses before the next item (source)
\* task starts.
ClaimC30_InterTaskDelay ==
    [][\A f \in FeedIds : ItemDelayObserved(f) /\ FeedDelayObserved(f)]_vars

\* C31: isToday answers TRUE exactly for a valid date d with
\* start <= d <= start + 86,399,999 ms, start being the beginning of the UTC
\* day of the call, and FALSE for null, '' and invalid dates;
\* filterTodayArticles returns no entry for null, undefined or an empty
\* list, and otherwise exactly the entries whose date is so selected, in
\* the order of the input.
SelectedAt(date, t) ==
    /\ date.kind \in {"Date", "iso"}
    /\ t - (t % MsPerDay) <= date.t
    /\ date.t <= t - (t % MsPerDay) + 86399999
RECURSIVE SelectedInOrder(_, _)
SelectedInOrder(list, t) ==
    IF list = <<>> THEN <<>>
    ELSE IF SelectedAt(Head(list).publishedAt, t)
         THEN <<Head(list)>> \o SelectedInOrder(Tail(list), t)
         ELSE SelectedInOrder(Tail(list), t)
ThmC31_TodayFilter ==
    /\ tf.pc = "isToday" => (tf.answer <=> SelectedAt(tf.date, tf.t))
    /\ tf.pc = "filtered" =>
          /\ tf.entries.kind # "array" => tf.kept = <<>>
          /\ tf.entries.list = <<>> => tf.kept = <<>>
          /\ tf.entries.kind = "array" => tf.kept = SelectedInOrder(tf.entries.list, tf.t)
WitC31_TodayFilter ==
    /\ tf.pc = "filtered"
    /\ tf.t = MsPerDay + Noon
    /\ Len(tf.entries.list) = 2
    /\ tf.entries.list[1].publishedAt = [kind |-> "iso", t |-> MsPerDay + EndOfDayMs]
    /\ tf.entries.list[2].publishedAt = [kind |-> "Date", t |-> MsPerDay + EndOfDayMs + 1]
    /\ tf.kept = <<tf.entries.list[1]>>
WitC31_StartOfDay ==
    /\ tf.pc = "isToday" /\ tf.t = MsPerDay + EndOfDayMs
    /\ tf.date = [kind |-> "Date", t |-> MsPerDay] /\ tf.answer
WitC31_BeforeStart ==
    /\ tf.pc = "isToday" /\ tf.date = [kind |-> "Date", t |-> MsPerDay - 1] /\ ~tf.answer

\* C32: the steps of a generateMultiLayerDigest invocation come in the order
\* cache check, content fetch, layer generation, cache write, return; the
\* cache check, the content fetch and the cache write act once each; the
\* summarization calls are all made between the fetch and the write; the
\* digest cache changes only in the write step, from which a generated
\* digest is returned; and a cache hit returns the cached digest with no
\* fetch, no summarization call and no write.
PhaseOf(pc) ==
    CASE pc = "idle" -> 0
      [] pc = "cacheCheck" -> 1
      [] pc = "fetch" -> 2
      [] pc \in {"custom", "paragraphs", "manual", "section", "overall", "oneLine"} -> 3
      [] pc = "write" -> 4
      [] OTHER -> 5
StepOrderC32 ==
    LET hit == readDigestCache(generateItemHash(dg.item)).found
    IN  \/ dg.pc \in {"idle", "done"} /\ dg'.pc \in {"cacheCheck", dg.pc}
        \/ /\ PhaseOf(dg'.pc) >= PhaseOf(dg.pc)
           /\ dg' # dg /\ dg.pc \in {"cacheCheck", "fetch", "write"} =>
                 PhaseOf(dg'.pc) > PhaseOf(dg.pc)
           /\ dg'.fetches # dg.fetches => dg.pc = "fetch" /\ dg'.fetches = 1
           /\ dg'.aiCalls # dg.aiCalls => PhaseOf(dg.pc) = 3
           /\ (dg'.writes # dg.writes \/ digestCache' # digestCache) =>
                 dg.pc = "write" /\ dg'.writes = 1
           /\ dg' # dg /\ dg.pc = "cacheCheck" =>
                 IF hit
                 THEN /\ dg'.pc = "done" /\ dg'.status = "returned"
                      /\ dg'.result = readDigestCache(generateItemHash(dg.item)).digest
                      /\ dg'.fetches = 0 /\ dg'.aiCalls = 0 /\ dg'.writes = 0
                      /\ digestCache' = digestCache
                 ELSE dg'.pc = "fetch"
           /\ dg' # dg /\ dg.pc = "fetch" => PhaseOf(dg'.pc) = 3
           /\ PhaseOf(dg.pc) = 3 /\ PhaseOf(dg'.pc) > 3 =>
                 dg'.pc = "write" \/ dg'.status = "threw"
           /\ dg' # dg /\ dg.pc = "write" =>
                 dg'.pc = "done" /\ dg'.status = "returned" /\ dg'.result = AssembledDigest
ThmC32_StepOrder == [][StepOrderC32]_vars
WitC32_StepOrder ==
    /\ dg.pc = "done" /\ dg.status = "returned" /\ ~dg.fromCache
    /\ dg.fetches = 1 /\ dg.aiCalls > 1 /\ dg.writes = 1
    /\ digestCache[generateItemHash(dg.item)].file = "valid"
    /\ digestCache[generateItemHash(dg.item)].cachedAt = now
WitC32_Hit ==
    /\ dg.pc = "done" /\ dg.status = "returned" /\ dg.fromCache /\ dg.n = 2
    /\ dg.fetches = 0 /\ dg.aiCalls = 0 /\ dg.writes = 0

\* C33: a lookup leaves both cache directories as they were, whatever the
\* record it finds (expired, unreadable, not JSON, without timestamp); a
\* store for key k changes nothing but the record of k in its own
\* directory, and the record k then holds is the value just stored.
FrameC33 ==
    LET k == generateItemHash(dg.item)
    IN  /\ dg.pc = "cacheCheck" /\ dg' # dg =>
              digestCache' = digestCache /\ feedCache' = feedCache
        /\ ff.pc = "read" /\ ff' # ff =>
              digestCache' = digestCache /\ feedCache' = feedCache
        /\ digestCache' # digestCache =>
              /\ dg.pc = "write"
              /\ feedCache' = feedCache
              /\ \A h \in DOMAIN digestCache : h # k => digestCache'[h] = digestCache[h]
              /\ digestCache'[k].file = "valid"
              /\ digestCache'[k].digest = DigestToJSON(dg'.result)
              /\ dg'.result.itemHash = k
        /\ feedCache' # feedCache =>
              /\ ff.pc = "write"
              /\ digestCache' = digestCache
              /\ \A f \in DOMAIN feedCache : f # ff.feed => feedCache'[f] = feedCache[f]
              /\ feedCache'[ff.feed].file = "valid"
              /\ feedCache'[ff.feed].entries =
                    [i \in 1 .. Len(ff'.entries) |-> EntryToJSON(ff'.entries[i])]
ThmC33_StorageFrame == [][FrameC33]_vars
\* a store over a record that a lookup found expired and left in place, the
\* other key's record untouched
WitC33_StorageFrame ==
    /\ dg.pc = "done" /\ dg.item = ItemA /\ dg.writes = 1
    /\ digestCache[generateItemHash(ItemA)].cachedAt = now /\ now > 0
    /\ digestCache[generateItemHash(ItemA)].digest = DigestToJSON(dg.result)
    /\ dg.result # PriorDigest(ItemA)
    /\ digestCache[generateItemHash(ItemB)] = DigestFileOf("valid", ItemB)
    /\ feedCache = [f \in Feeds |-> FeedFileOf("invalidJSON")]
WitC33_ExpiredLeft ==
    /\ dg.pc = "fetch" /\ digestCacheEnabled
    /\ digestCache[generateItemHash(dg.item)] = DigestFileOf("valid", dg.item)
    /\ now - 0 > digestCacheTtlMs

\* C34: after a run, items.cached of the report equals the number of items
\* whose digest generateMultiLayerDigest returned from the digest cache.
RECURSIVE HitsUpTo(_)
HitsUpTo(f) == IF f = 0 THEN 0 ELSE task[f].hits + HitsUpTo(f - 1)
ClaimC34_CachedReported ==
    mainPc = "done" => report.itemsCached = HitsUpTo(NFeeds)
\* what main does instead: a cached digest counts as a success like a
\* generated one, and items.cached stays 0
CachedCountedAsSuccess ==
    /\ report.itemsCached = 0
    /\ Finished => report.itemsSuccessful = Len(digests)

\* C35: with MAX_RETRIES = 0 and a custom summary prompt loaded, the
\* custom-prompt request of an item is issued once: whenever
\* generateWithCustomPrompt is about to issue it, it has not issued it before.
ClaimC35_NoRetryAtZero ==
    (cfg.maxRetries = 0 /\ cfg.customPrompt /\ dg.pc = "custom") =>
        (dg.attempt = 1 /\ dg.aiCalls = 0)
\* what the code does instead: up to DefaultCustomAttempts issues
CustomIssuesAtZero ==
    (cfg.maxRetries = 0 /\ cfg.customPrompt /\ dg.pc = "custom") =>
        (dg.attempt <= DefaultCustomAttempts /\ dg.aiCalls = dg.attempt - 1)
ThirdIssueAtZero ==
    cfg.maxRetries = 0 /\ cfg.customPrompt /\ dg.pc = "custom" /\ dg.attempt = DefaultCustomAttempts

\* C36: in every state the report's counters satisfy feeds.total =
\* feeds.successful + feeds.failed, items.total = items.successful +
\* items.failed + items.skipped, items.processed = items.successful,
\* items.cached <= items.successful, and no more errors are listed than
\* failures counted, for feeds and for items; and when a run of main is past
\* processing, feeds.total is the number of feeds it attempted and
\* items.total the number of items it attempted.
RECURSIVE ItemsAttemptedUpTo(_)
ItemsAttemptedUpTo(f) ==
    IF f = 0 THEN 0
    ELSE (IF f \in SelectedFeeds THEN task[f].n ELSE 0) + ItemsAttemptedUpTo(f - 1)
ThmC36_CounterInvariants ==
    /\ report.feedsTotal = report.feedsSuccessful + report.feedsFailed
    /\ report.itemsTotal = report.itemsSuccessful + report.itemsFailed + report.itemsSkipped
    /\ report.itemsProcessed = report.itemsSuccessful
    /\ report.itemsCached <= report.itemsSuccessful
    /\ report.feedErrors <= report.feedsFailed
    /\ report.itemErrors <= report.itemsFailed
    /\ PastProcessing =>
          /\ report.feedsTotal = Cardinality(AttemptedFeeds)
          /\ report.itemsTotal = ItemsAttemptedUpTo(NFeeds)
\* every status was passed once, the failure without an error object
WitC36_CounterInvariants ==
    /\ mainPc = "calls"
    /\ report.itemsTotal = 4 /\ report.itemsSuccessful = 2 /\ report.itemsCached = 1
    /\ report.itemsSkipped = 1 /\ report.itemsFailed = 1 /\ report.itemErrors = 0
    /\ report.feedsTotal = 1 /\ report.feedsFailed = 1 /\ report.feedErrors = 1
\* a pooled run of three feeds ended: one fetch failed, two feeds gave two
\* items each, of which one threw
WitC36_EndOfRun ==
    /\ mainPc = "done" /\ run.variant = "pooled" /\ run.maxConcurrentFeeds = 2
    /\ report.feedsTotal = 3 /\ report.feedsFailed = 1
    /\ report.itemsTotal = 4 /\ report.itemsFailed = 1

\* C37: in a sequence of daily runs that starts from no feed or from a feed
\* whose entries have pairwise different ids, no feed that a run builds has
\* two entries with the same id.
ThmC37_NoDuplicateIds ==
    pub.pc = "built" => NoDuplicateIds(pub.allEntries)
\* the third run, the second of its day, over a feed that held this day's
\* entry and an older one: one entry of today remains
WitC37_NoDuplicateIds ==
    /\ pub.pc = "built" /\ pub.runNo = 3
    /\ \E i \in 1 .. Len(pub.existing) : pub.existing[i].id = todayId(pub.now)
    /\ Cardinality({i \in 1 .. Len(pub.allEntries) : pub.allEntries[i].id = todayId(pub.now)}) = 1
    /\ Len(pub.allEntries) >= 3

\* C38: in every feed a daily run builds, each entry with a daily-digest id
\* names a day not earlier than the current UTC day minus retentionDays, and
\* at most retentionDays + 1 of them name a day up to today.
DailyUpToToday ==
    {i \in 1 .. Len(pub.allEntries) :
        /\ pub.allEntries[i].id.kind = "daily"
        /\ pub.allEntries[i].id.day <= UTCDay(pub.now)}
DailyEntriesInWindow ==
    pub.pc = "built" =>
       \A i \in 1 .. Len(pub.allEntries) :
          pub.allEntries[i].id.kind = "daily" =>
             /\ pub.allEntries[i].id.ok
             /\ pub.allEntries[i].id.day >= UTCDay(pub.now) - pub.retentionDays

\* C39: the feed entry built from a digest that generateMultiLayerDigest
\* returned from the digest cache is the entry built from the digest as it
\* was generated for the same item: same id, same updated and published
\* timestamps, same content.
AsGenerated(digest, item) == [digest EXCEPT !.publishedAt = item.publishedAt]
ClaimC39_CacheTransparency ==
    (dg.pc = "done" /\ dg.status = "returned" /\ dg.fromCache) =>
        buildAtomEntry(dg.result, now) = buildAtomEntry(AsGenerated(dg.result, dg.item), now)
\* what holds instead: id, title and content agree, and the timestamps of
\* the entry from the cache are the instant the feed is built
CachedEntryDatedAtBuild ==
    (dg.pc = "done" /\ dg.status = "returned" /\ dg.fromCache) =>
        LET cached == buildAtomEntry(dg.result, now)
            fresh == buildAtomEntry(AsGenerated(dg.result, dg.item), now)
        IN  /\ cached.id = fresh.id /\ cached.title = fresh.title
            /\ cached.content = fresh.content
            /\ cached.published = toISOString(DateOf(now)) /\ cached.updated = cached.published
            /\ fresh.published = toISOString(dg.item.publishedAt)

\* C40: every generateMultiLayerDigest invocation ends, having made no more
\* summarization calls than a bound that depends on maxRetries only (the
\* custom-prompt attempts, one splitting call, the manual sections, and the
\* section, overall and one-line calls) and at most one content fetch; main
\* ends; and main takes up each feed once and settles each of its items
\* once, in order.
WorkBound(maxRetries) ==
    (IF maxRetries # 0 THEN maxRetries ELSE DefaultCustomAttempts)
        + 1 + MaxManualSections + 3
BoundedWorkC40 ==
    /\ dg.aiCalls <= WorkBound(cfg.maxRetries)
    /\ dg.fetches <= 1
OnceEachC40 ==
    \A f \in FeedIds :
       /\ task'[f].pc = "fetching" /\ task[f].pc # "fetching" => task[f].pc = "queued"
       /\ task[f].pc \in {"settled", "skipped"} => task'[f] = task[f]
       /\ task[f].pc \in {"item", "itemDelay"} /\ task'[f].pc = "item" /\ task'[f] # task[f] =>
             task'[f].i = task[f].i + 1 /\ task'[f].i <= task[f].n
       /\ Len(digests') <= Len(digests) + 1
DigestTerminates == (dg.pc \notin {"idle", "done"}) ~> (dg.pc = "done")
MainTerminates == (mainPc = "starting") ~> (mainPc \in {"done", "failed", "aborted"})
ThmC40_Termination ==
    /\ [](BoundedWorkC40)
    /\ [][OnceEachC40]_vars
    /\ DigestTerminates
    /\ MainTerminates
\* an invocation that ended after as many summarization calls as the bound
\* allows at maxRetries = 0
WitC40_Termination ==
    /\ dg.pc = "done" /\ cfg.maxRetries = 0 /\ dg.aiCalls = WorkBound(0)
WitC40_MainEnded ==
    /\ mainPc = "done" /\ run.variant = "pooled"
    /\ report.itemsTotal = (NFeeds - 1) * MaxEntries

====
